---- MODULE Spec2Model ----
(***************************************************************************)
(* TAS-Assist: the generate / validate / repair pipeline.                  *)
(*                                                                         *)
(*  - ClaudeClient.executeWithRetry (src/lib/claude-client.ts): bounded    *)
(*    retry with exponential backoff and jitter.                           *)
(*  - generateWithAPRV / executeAPRVLoop (src/lib/storage.ts): the         *)
(*    Analyze-Plan-Reflect-Verify loop.                                    *)
(*                                                                         *)
(* Strings are modelled as sequences of text fragments; a fragment is the  *)
(* unit of String.prototype.includes, so every keyword the code searches   *)
(* for is a fragment of its own in the texts used here.                    *)
(***************************************************************************)
EXTENDS Integers, Sequences, FiniteSets, TLC

VARIABLES
    \* ---- ClaudeClient ----
    apiKey,         \* the constructor's apiKey argument
    retryConfig,    \* this.retryConfig
    rPc,            \* position in executeWithRetry
    rAttempt,       \* loop variable `attempt`
    rLastError,     \* local `lastError`
    rTrace,         \* history: operation calls and sleeps, in order
    rOutcome,       \* what executeWithRetry returned or threw
    \* ---- generateWithAPRV / executeAPRVLoop ----
    pc,             \* position in generateWithAPRV
    attempt,        \* loop variable `attempt` of executeAPRVLoop
    context,        \* APRVContext: logs, attempts, maxAttempts
    lastError,      \* local `lastError`
    lastPlan,       \* local `lastPlan`
    planResult,     \* local `planResult` of the current iteration
    result,         \* the GeneratedPlan that generateWithAPRV returns
    calls,          \* history: phase calls of this run, in order
    \* ---- POST /api/generate ----
    env,            \* process.env: ANTHROPIC_API_KEY, NEXT_PUBLIC_API_MODEL
    routePc,        \* position in the POST handler
    request,        \* the request body
    response,       \* the NextResponse the handler returns
    \* ---- localStorage persistence and the page ----
    store,          \* localStorage: the items under the four STORAGE_KEYS
    storageEnv,     \* the browser: is localStorage usable, and its quota
    nextId,         \* number of the next generatePlanId() value
    lastOp,         \* history: the last storage or page operation
    backup,         \* the last value returned by exportAllData
    page,           \* HomePage: state, generatedPlan, mount effect ran, requests sent
    \* ---- a pure function under test ----
    probe           \* its argument and, once applied, its value

retryVars == <<apiKey, retryConfig, rPc, rAttempt, rLastError, rTrace, rOutcome>>
aprvVars  == <<pc, attempt, context, lastError, lastPlan, planResult, result, calls>>
routeVars == <<env, routePc, request, response>>
storeVars == <<store, storageEnv, nextId, lastOp, backup, page>>
vars      == <<apiKey, retryConfig, rPc, rAttempt, rLastError, rTrace, rOutcome,
               pc, attempt, context, lastError, lastPlan, planResult, result, calls,
               env, routePc, request, response,
               store, storageEnv, nextId, lastOp, backup, page, probe>>

(***************************************************************************)
(* Text helpers                                                            *)
(***************************************************************************)

\* String.prototype.includes(w), at fragment granularity
Includes(s, w) == \E i \in 1..Len(s) : s[i] = w

\* Array.prototype.slice(0, n)
SliceFirst(s, n) ==
    IF n < 0 THEN SubSeq(s, 1, IF Len(s) + n > 0 THEN Len(s) + n ELSE 0)
    ELSE IF Len(s) <= n THEN s ELSE SubSeq(s, 1, n)

RECURSIVE Join(_, _)
\* Array.prototype.join(sep) on an array of texts
Join(parts, sep) ==
    IF Len(parts) = 0 THEN <<>>
    ELSE IF Len(parts) = 1 THEN parts[1]
    ELSE parts[1] \o <<sep>> \o Join(Tail(parts), sep)

Min(a, b) == IF a <= b THEN a ELSE b

RECURSIVE Pow(_, _)
Pow(b, e) == IF e = 0 THEN 1 ELSE b * Pow(b, e - 1)

(***************************************************************************)
(* ClaudeClient: retry with backoff                                        *)
(***************************************************************************)

\* largest maxRetries a client is configured with
MaxRetriesBound == 5

\* String.prototype.startsWith(prefix), at fragment granularity
StartsWith(s, prefix) == Len(s) > 0 /\ s[1] = prefix

\* values of an API key: none, the two placeholders of .env.example, a
\* string that is not a key, and a key
ApiKeys ==
    { <<>>, <<"your-key-here">>, <<"your_api_key_here">>, <<"invalid-key-format">>,
      <<"sk-", "ant-api03-0123456789">> }

initialDelay == 1000
maxDelay == 10000
backoffMultiplier == 2
defaultMaxRetries == 3

\* A RetryConfig.  backoffMultiplier is the fraction num / den, so that the
\* multiplier 2.5 of claude-client.example.ts is [num |-> 5, den |-> 2].
DEFAULT_RETRY_CONFIG ==
    [maxRetries |-> defaultMaxRetries, initialDelay |-> initialDelay,
     maxDelay |-> maxDelay, backoffMultiplier |-> [num |-> backoffMultiplier, den |-> 1]]

\* the delays of clientConfig.retry: none given (the defaults stay), those
\* of claude-client.example.ts, and an initial delay of 1001 ms
RetryDelays ==
    { [initialDelay |-> DEFAULT_RETRY_CONFIG.initialDelay,
       maxDelay |-> DEFAULT_RETRY_CONFIG.maxDelay,
       backoffMultiplier |-> DEFAULT_RETRY_CONFIG.backoffMultiplier],
      [initialDelay |-> 2000, maxDelay |-> 20000, backoffMultiplier |-> [num |-> 5, den |-> 2]],
      [initialDelay |-> 1001, maxDelay |-> 10000, backoffMultiplier |-> [num |-> 2, den |-> 1]] }

\* an error without an HTTP status (error.status === undefined)
NoStatus == -1

\* `lastError` before any failure (undefined)
NoRawError == [api |-> FALSE, status |-> -2]

\* nothing returned or thrown yet
NoOutcome == [name |-> "none", message |-> <<>>, statusCode |-> NoStatus]

\* what the transport can throw: Anthropic.APIError instances (with or
\* without a status) and other errors
RawErrors ==
    { [api |-> TRUE, status |-> s] :
        s \in {400, 401, 403, 404, 408, 429, 499, 500, 503, 504, 599, 600, NoStatus} }
    \cup { [api |-> FALSE, status |-> NoStatus], [api |-> FALSE, status |-> 503] }

\* Math.random(), in thousandths
Randoms == {0, 500, 999}

isRetryableErrorAny4xx(error) ==
    IF error.api
    THEN error.status >= 400 /\ error.status < 600
    ELSE FALSE

isRetryableError(error) ==
    IF error.api
    THEN \/ error.status = 429
         \/ error.status = 408
         \/ error.status = 503
         \/ error.status = 504
         \/ (error.status >= 500 /\ error.status < 600)
    ELSE FALSE

\* the delay without Math.min(..., maxDelay)
calculateBackoffNoCap(cfg, att, r) ==
    LET n == cfg.initialDelay * Pow(cfg.backoffMultiplier.num, att)
        d == Pow(cfg.backoffMultiplier.den, att)
    IN  (n * (4000 + 2 * r)) \div (5000 * d)

\* Math.floor(delay + delay * 0.2 * (random * 2 - 1)), random = r / 1000,
\* delay = Math.min(initialDelay * Math.pow(backoffMultiplier, attempt),
\* maxDelay) = n / d
calculateBackoff(cfg, att, r) ==
    LET raw    == cfg.initialDelay * Pow(cfg.backoffMultiplier.num, att)
        den    == Pow(cfg.backoffMultiplier.den, att)
        capped == raw > cfg.maxDelay * den
        n      == IF capped THEN cfg.maxDelay ELSE raw
        d      == IF capped THEN 1 ELSE den
    IN  (n * (4000 + 2 * r)) \div (5000 * d)

getUserFriendlyErrorMessage(error) ==
    CASE error.status = 401 -> <<"Invalid ", "API", " key. Please check your ANTHROPIC_API_KEY environment variable.">>
      [] error.status = 403 -> <<"Access forbidden. Your ", "API", " key may not have the required permissions.">>
      [] error.status = 429 -> <<"Rate limit exceeded. Please try again in a moment.">>
      [] error.status \in {500, 502, 503, 504} -> <<"Anthropic service is temporarily unavailable. Please try again later.">>
      [] OTHER -> <<"transport message">>

formatError(error) ==
    IF error = NoRawError
    THEN [name |-> "ClaudeAPIError", message |-> <<"An unknown error occurred">>,
          statusCode |-> NoStatus]
    ELSE IF error.api
    THEN [name |-> "ClaudeAPIError", message |-> getUserFriendlyErrorMessage(error),
          statusCode |-> error.status]
    ELSE [name |-> "ClaudeAPIError", message |-> <<"transport message">>,
          statusCode |-> NoStatus]

\* the loop condition of executeWithRetry: attempt <= maxRetries
RetryLoopCondStrict(att, cfg) == att < cfg.maxRetries

RetryLoopCond(att, cfg) == att <= cfg.maxRetries

\* the guard of the backoff sleep: attempt < maxRetries
SleepCond(att, cfg) == att < cfg.maxRetries

CallEv == [ev |-> "call", ms |-> 0]
SleepEv(ms) == [ev |-> "sleep", ms |-> ms]

NumCalls  == Cardinality({i \in 1..Len(rTrace) : rTrace[i].ev = "call"})
NumSleeps == Cardinality({i \in 1..Len(rTrace) : rTrace[i].ev = "sleep"})

\* the message of the ClaudeAPIError that the constructor throws for this
\* apiKey; empty when it throws nothing
constructorError(key) ==
    IF Len(key) = 0
    THEN <<"API", " key is required. Please set ANTHROPIC_API_KEY environment variable.">>
    ELSE IF key = <<"your-key-here">> \/ key = <<"your_api_key_here">>
    THEN <<"Invalid ", "API", " key. Please replace the placeholder with a valid Anthropic ", "API", " key.">>
    ELSE <<>>

\* this.retryConfig = {...DEFAULT_RETRY_CONFIG, ...clientConfig?.retry}
RetryConfigs ==
    { [maxRetries |-> n, initialDelay |-> d.initialDelay, maxDelay |-> d.maxDelay,
       backoffMultiplier |-> d.backoffMultiplier] :
        n \in 0..MaxRetriesBound, d \in RetryDelays }

\* a constructed client, idle
InitRetry ==
    /\ apiKey \in {k \in ApiKeys : constructorError(k) = <<>>}
    /\ retryConfig \in RetryConfigs
    /\ rPc = "idle"
    /\ rAttempt = 0
    /\ rLastError = NoRawError
    /\ rTrace = <<>>
    /\ rOutcome = NoOutcome

\* before `new ClaudeClient(apiKey, model, clientConfig)`
InitNew ==
    /\ apiKey \in ApiKeys
    /\ retryConfig = DEFAULT_RETRY_CONFIG
    /\ rPc = "new"
    /\ rAttempt = 0
    /\ rLastError = NoRawError
    /\ rTrace = <<>>
    /\ rOutcome = NoOutcome

\* new ClaudeClient(apiKey, model, {retry: {...}})
Construct ==
    /\ rPc = "new"
    /\ IF constructorError(apiKey) # <<>>
       THEN /\ rPc' = "ctorThrown"
            /\ rOutcome' = [name |-> "ClaudeAPIError", message |-> constructorError(apiKey),
                            statusCode |-> NoStatus]
            /\ retryConfig' = retryConfig
       ELSE /\ rPc' = "idle"
            /\ rOutcome' = rOutcome
            /\ retryConfig' \in RetryConfigs
    /\ UNCHANGED <<apiKey, rAttempt, rLastError, rTrace>>
    /\ UNCHANGED <<aprvVars, routeVars, storeVars, probe>>

\* entry of executeWithRetry: `let lastError; for (let attempt = 0; ...`
\* followed by the loop head: call the operation or leave the loop
LoopHead(att, lastErr) ==
    IF RetryLoopCond(att, retryConfig)
    THEN /\ rPc' = "calling"
         /\ rTrace' = Append(rTrace, CallEv)
         /\ rOutcome' = rOutcome
    ELSE /\ rPc' = "thrown"
         /\ rTrace' = rTrace
         /\ rOutcome' = formatError(lastErr)

ExecuteWithRetry ==
    /\ rPc = "idle"
    /\ rAttempt' = 0
    /\ rLastError' = NoRawError
    /\ LoopHead(0, NoRawError)
    /\ UNCHANGED <<retryConfig>>
    /\ UNCHANGED <<apiKey, aprvVars, routeVars, storeVars, probe>>

\* `await operation()` resolves
OperationSucceeds ==
    /\ rPc = "calling"
    /\ rPc' = "returned"
    /\ rOutcome' = [name |-> "result", message |-> <<>>, statusCode |-> NoStatus]
    /\ UNCHANGED <<retryConfig, rAttempt, rLastError, rTrace>>
    /\ UNCHANGED <<apiKey, aprvVars, routeVars, storeVars, probe>>

\* `await operation()` rejects with a non-retryable error: throw formatError
OperationFailsFatal ==
    /\ rPc = "calling"
    /\ \E error \in RawErrors :
        /\ ~isRetryableError(error)
        /\ rLastError' = error
        /\ rPc' = "thrown"
        /\ rOutcome' = formatError(error)
    /\ UNCHANGED <<retryConfig, rAttempt, rTrace>>
    /\ UNCHANGED <<apiKey, aprvVars, routeVars, storeVars, probe>>

\* `await operation()` rejects with a retryable error: sleep if retries remain,
\* else fall through to the next loop test
OperationFailsRetryable ==
    /\ rPc = "calling"
    /\ \E error \in RawErrors, r \in Randoms :
        /\ isRetryableError(error)
        /\ rLastError' = error
        /\ IF SleepCond(rAttempt, retryConfig)
           THEN /\ rPc' = "sleeping"
                /\ rTrace' = Append(rTrace, SleepEv(calculateBackoff(retryConfig, rAttempt, r)))
                /\ rAttempt' = rAttempt
                /\ rOutcome' = rOutcome
           ELSE /\ rAttempt' = rAttempt + 1
                /\ LoopHead(rAttempt + 1, error)
    /\ UNCHANGED <<retryConfig>>
    /\ UNCHANGED <<apiKey, aprvVars, routeVars, storeVars, probe>>

\* `await this.sleep(delay)` resolves: attempt++ and the loop test
SleepDone ==
    /\ rPc = "sleeping"
    /\ rAttempt' = rAttempt + 1
    /\ LoopHead(rAttempt + 1, rLastError)
    /\ UNCHANGED <<retryConfig, rLastError>>
    /\ UNCHANGED <<apiKey, aprvVars, routeVars, storeVars, probe>>

NextRetry ==
    \/ ExecuteWithRetry
    \/ OperationSucceeds
    \/ OperationFailsFatal
    \/ OperationFailsRetryable
    \/ SleepDone

\* a client from its construction on
NextClient ==
    \/ Construct
    \/ NextRetry

(***************************************************************************)
(* APRV: candidate plans and the schema check of the Verify phase          *)
(***************************************************************************)

MAX_REPAIR_ATTEMPTS == 2

\* schema.required of prompts/schema.json (the non-optional members of the
\* GeneratedPlan type)
SchemaRequired == <<"metadata", "meta", "weekly_plan", "units", "confidence_score">>

MetadataFields == {"schema_version", "project_type", "generated_at"}
MetaFields == {"qualification.title", "duration.weeks", "duration.total_hours",
               "delivery_mode", "cohort_profile"}

\* a value that is not an array / not a number
NotArray == -1
NotNumber == -100

\* an absent string member (undefined)
Absent == "<undefined>"

\* one element of weekly_plan: week_number (NotNumber when absent)
WeekEntry(n) == [week_number |-> n]

\* one element of units: unit_code (Absent when absent)
UnitEntry(code) == [unit_code |-> code]

\* the sub-objects of meta
MetaObjects == {"qualification", "duration"}

\* A parsed JSON value.  fields: the top-level keys present; objects: the
\* sub-objects of meta present; metadata, meta: the sub-fields present with
\* a truthy value; falsy: the members present with a falsy value (null for
\* "metadata" and "meta", "" for a string sub-field, 0 for a number
\* sub-field, named by their path); illFormed: the sub-fields whose value is
\* truthy but not of the declared form (schema_version "1", project_type
\* "lesson", generated_at "yesterday", title "abc", weeks 1.5, total_hours
\* 20000, delivery_mode "hybrid", cohort_profile "short"); weekly_plan,
\* units: the array length; week_entries, unit_entries: the elements of the
\* two arrays; confidence_score: the number in tenths.
NoPlan ==
    [kind |-> "null", fields |-> {}, objects |-> {}, metadata |-> {}, meta |-> {},
     falsy |-> {}, illFormed |-> {},
     weekly_plan |-> NotArray, units |-> NotArray,
     week_entries |-> <<>>, unit_entries |-> <<>>, confidence_score |-> NotNumber]

GoodPlan ==
    [kind |-> "object",
     fields |-> {"metadata", "meta", "weekly_plan", "units", "confidence_score"},
     objects |-> MetaObjects,
     metadata |-> MetadataFields, meta |-> MetaFields, falsy |-> {}, illFormed |-> {},
     weekly_plan |-> 2, units |-> 1,
     week_entries |-> <<WeekEntry(1), WeekEntry(2)>>,
     unit_entries |-> <<UnitEntry("BSBWHS411")>>,
     confidence_score |-> 8]

\* no `units` key at all
MissingUnitsPlan ==
    [GoodPlan EXCEPT !.fields = @ \ {"units"}, !.units = NotArray, !.unit_entries = <<>>]

\* weekly_plan: []
EmptyWeeklyPlan == [GoodPlan EXCEPT !.weekly_plan = 0, !.week_entries = <<>>]

\* seven violations at once (meta.duration: {})
SparsePlan ==
    [GoodPlan EXCEPT !.metadata = {"schema_version"},
                     !.meta = {"qualification.title", "cohort_profile"},
                     !.units = 0, !.unit_entries = <<>>, !.confidence_score = 15]

\* the JSON text `5`
NumberPlan == [NoPlan EXCEPT !.kind = "number"]

Candidates == {GoodPlan, MissingUnitsPlan, EmptyWeeklyPlan, SparsePlan, NumberPlan}

Issue(path, message) == [path |-> path, message |-> message]

\* `if (cond) errors.push({path, message})`
PushIf(cond, path, message) == IF cond THEN <<Issue(path, message)>> ELSE <<>>

RECURSIVE RequiredErrors(_, _)
\* for (const field of required) if (!(field in plan)) errors.push(...)
RequiredErrors(plan, required) ==
    IF Len(required) = 0 THEN <<>>
    ELSE PushIf(Head(required) \notin plan.fields, Head(required),
                <<"Required field '", Head(required), "' is missing">>)
         \o RequiredErrors(plan, Tail(required))

validateAgainstSchema(plan, required) ==
    IF plan.kind # "object" /\ Len(required) > 0
    THEN \* `field in plan` throws a TypeError on a primitive: the catch branch
         [valid |-> FALSE,
          errors |-> <<Issue("root", <<"Validation error: ", "Cannot use 'in' operator">>)>>]
    ELSE IF plan.kind = "null"
    THEN \* `plan.metadata` throws a TypeError on null: the catch branch
         [valid |-> FALSE,
          errors |-> <<Issue("root", <<"Validation error: ",
                          "Cannot read properties of null (reading 'metadata')">>)>>]
    ELSE
    LET errors ==
            RequiredErrors(plan, required)
         \o (IF "metadata" \in plan.fields /\ "metadata" \notin plan.falsy
             THEN PushIf("schema_version" \notin plan.metadata, "metadata.schema_version", <<"Missing schema version">>)
               \o PushIf("project_type" \notin plan.metadata, "metadata.project_type", <<"Missing project type">>)
               \o PushIf("generated_at" \notin plan.metadata, "metadata.generated_at", <<"Missing generated_at timestamp">>)
             ELSE <<>>)
         \o (IF "meta" \in plan.fields /\ "meta" \notin plan.falsy
             THEN PushIf("qualification.title" \notin plan.meta, "meta.qualification.title", <<"Missing qualification title">>)
               \o PushIf("duration.weeks" \notin plan.meta, "meta.duration.weeks", <<"Missing duration weeks">>)
               \o PushIf("duration.total_hours" \notin plan.meta, "meta.duration.total_hours", <<"Missing total hours">>)
               \o PushIf("delivery_mode" \notin plan.meta, "meta.delivery_mode", <<"Missing delivery mode">>)
               \o PushIf("cohort_profile" \notin plan.meta, "meta.cohort_profile", <<"Missing cohort profile">>)
             ELSE <<>>)
         \o PushIf(plan.weekly_plan = NotArray \/ plan.weekly_plan = 0, "weekly_plan",
                   <<"Weekly plan must be a non-empty array">>)
         \o PushIf(plan.units = NotArray \/ plan.units = 0, "units",
                   <<"Units must be a non-empty array">>)
         \o PushIf(plan.confidence_score = NotNumber \/ plan.confidence_score < 0
                     \/ plan.confidence_score > 10,
                   "confidence_score", <<"Confidence score must be a number between 0 and 1">>)
    IN  [valid |-> Len(errors) = 0, errors |-> errors]

\* errors.slice(0, 5).map(err => `${err.path}: ${err.message}`).join('; ')
formatValidationErrors(errors) ==
    IF Len(errors) = 0 THEN <<"No errors">>
    ELSE LET first == SliceFirst(errors, 5)
         IN  Join([i \in 1..Len(first) |-> <<first[i].path, ": ">> \o first[i].message], "; ")

(***************************************************************************)
(* The Zod schema and validatePlan (src/lib/schema-validator.ts)           *)
(***************************************************************************)

\* longest weekly_plan and units arrays of the plans handed to the validators
MaxEntries == 2

\* all sequences over S of length at most n
SeqsUpTo(S, n) == UNION { [1..k -> S] : k \in 0..n }

\* values of week_number: 1, 2, 0 and absent
WeekEntries == { WeekEntry(n) : n \in {1, 2, 0, NotNumber} }

\* values of unit_code: two unit codes, a string that is no unit code, absent
UnitEntries == { UnitEntry(c) : c \in {"BSBWHS411", "TAEDES401", "bsb-123", Absent} }

\* /^[A-Z]{3}[A-Z0-9]{6,10}$/.test(code), for the codes of UnitEntries
MatchesUnitCode(code) == code \in {"BSBWHS411", "TAEDES401"}

\* schema_version: "1" instead of "1.0.0"
IllFormedVersionPlan == [GoodPlan EXCEPT !.illFormed = {"metadata.schema_version"}]

\* metadata without project_type
NoProjectTypePlan == [GoodPlan EXCEPT !.metadata = @ \ {"project_type"}]

\* no `meta` key at all
NoMetaPlan == [GoodPlan EXCEPT !.fields = @ \ {"meta"}, !.meta = {}, !.objects = {}]

\* meta without cohort_profile
NoCohortPlan == [GoodPlan EXCEPT !.meta = @ \ {"cohort_profile"}]

\* metadata: null
NullMetadataPlan == [GoodPlan EXCEPT !.metadata = {}, !.falsy = {"metadata"}]

\* meta without the duration object
NoDurationPlan ==
    [GoodPlan EXCEPT !.objects = {"qualification"},
                     !.meta = @ \ {"duration.weeks", "duration.total_hours"}]

\* meta.duration.weeks: 0
ZeroWeeksPlan ==
    [GoodPlan EXCEPT !.meta = @ \ {"duration.weeks"}, !.falsy = {"meta.duration.weeks"}]

\* metadata.project_type: ""
EmptyProjectTypePlan ==
    [GoodPlan EXCEPT !.metadata = @ \ {"project_type"},
                     !.falsy = {"metadata.project_type"}]

\* meta.qualification.title: "abc"
ShortTitlePlan == [GoodPlan EXCEPT !.illFormed = {"meta.qualification.title"}]

PlanShapes ==
    {GoodPlan, MissingUnitsPlan, SparsePlan, IllFormedVersionPlan, NoProjectTypePlan,
     NoMetaPlan, NoCohortPlan, NullMetadataPlan, NoDurationPlan, ZeroWeeksPlan,
     EmptyProjectTypePlan, ShortTitlePlan}

\* the plan `base` with the given elements in weekly_plan and units
WithEntries(base, ws, us) ==
    [base EXCEPT !.week_entries = ws, !.weekly_plan = Len(ws),
                 !.unit_entries = IF base.units = NotArray THEN <<>> ELSE us,
                 !.units = IF base.units = NotArray THEN NotArray ELSE Len(us)]

\* the values handed to the validators
PlanSpace ==
    { WithEntries(b, ws, us) :
        b \in PlanShapes,
        ws \in SeqsUpTo(WeekEntries, MaxEntries),
        us \in SeqsUpTo(UnitEntries, MaxEntries) }
    \cup {NumberPlan, NoPlan}

\* one ZodIssue: path (keys and indices) and message
ZodIssue(path, message) == [path |-> path, message |-> message]

ZodIf(cond, path, message) == IF cond THEN <<ZodIssue(path, message)>> ELSE <<>>

\* the messages of the declared forms
InvalidRegex == <<"Invalid">>
InvalidDatetime == <<"Invalid datetime">>
InvalidEnum == <<"Invalid enum value">>
TooShort(n) == <<"String must contain at least ", ToString(n), " character(s)">>
TooSmall(n) == <<"Number must be greater than or equal to ", ToString(n)>>
TooBig(n) == <<"Number must be less than or equal to ", ToString(n)>>
NotInteger == <<"Expected integer, received float">>

\* a required member with a declared form: absent, or present with the falsy
\* value of its type ("" or 0), or present, truthy and ill-formed
MemberIssues(plan, present, f, name, path, falsyMessage, illFormedMessage) ==
    ZodIf(f \notin present /\ name \notin plan.falsy, path, <<"Required">>)
    \o ZodIf(name \in plan.falsy, path, falsyMessage)
    \o ZodIf(f \in present /\ name \in plan.illFormed, path, illFormedMessage)

RECURSIVE WeekIssues(_, _)
\* WeeklyPlanSchema on the elements i.. of weekly_plan: week_number is
\* z.number().int().min(1); the elements here carry an activities array
WeekIssues(entries, i) ==
    IF i > Len(entries) THEN <<>>
    ELSE ZodIf(entries[i].week_number = NotNumber,
               <<"weekly_plan", ToString(i - 1), "week_number">>, <<"Required">>)
      \o ZodIf(entries[i].week_number # NotNumber /\ entries[i].week_number < 1,
               <<"weekly_plan", ToString(i - 1), "week_number">>,
               <<"Number must be greater than or equal to 1">>)
      \o WeekIssues(entries, i + 1)

RECURSIVE UnitIssues(_, _)
\* UnitSchema on the elements i.. of units: unit_code is z.string().regex(...);
\* the elements here carry a unit_title and nominal_hours of the declared form
UnitIssues(entries, i) ==
    IF i > Len(entries) THEN <<>>
    ELSE ZodIf(entries[i].unit_code = Absent,
               <<"units", ToString(i - 1), "unit_code">>, <<"Required">>)
      \o ZodIf(entries[i].unit_code # Absent /\ ~MatchesUnitCode(entries[i].unit_code),
               <<"units", ToString(i - 1), "unit_code">>, <<"Invalid">>)
      \o UnitIssues(entries, i + 1)

\* the issues of GeneratedPlanSchema.parse(plan), in the order of the shape
zodIssues(plan) ==
    IF plan.kind # "object"
    THEN <<ZodIssue(<<>>, <<"Expected object, received ", plan.kind>>)>>
    ELSE
       (IF "metadata" \notin plan.fields
        THEN <<ZodIssue(<<"metadata">>, <<"Required">>)>>
        ELSE IF "metadata" \in plan.falsy
        THEN <<ZodIssue(<<"metadata">>, <<"Expected object, received null">>)>>
        ELSE MemberIssues(plan, plan.metadata, "schema_version", "metadata.schema_version",
                          <<"metadata", "schema_version">>, InvalidRegex, InvalidRegex)
          \o \* project_type has .default('unit_plan'): absent is accepted
             ZodIf("metadata.project_type" \in plan.falsy
                     \/ ("project_type" \in plan.metadata
                           /\ "metadata.project_type" \in plan.illFormed),
                   <<"metadata", "project_type">>, InvalidEnum)
          \o MemberIssues(plan, plan.metadata, "generated_at", "metadata.generated_at",
                          <<"metadata", "generated_at">>, InvalidDatetime, InvalidDatetime))
    \o (IF "meta" \notin plan.fields
        THEN <<ZodIssue(<<"meta">>, <<"Required">>)>>
        ELSE IF "meta" \in plan.falsy
        THEN <<ZodIssue(<<"meta">>, <<"Expected object, received null">>)>>
        ELSE (IF "qualification" \notin plan.objects
              THEN <<ZodIssue(<<"meta", "qualification">>, <<"Required">>)>>
              ELSE MemberIssues(plan, plan.meta, "qualification.title",
                                "meta.qualification.title",
                                <<"meta", "qualification", "title">>,
                                TooShort(5), TooShort(5)))
          \o (IF "duration" \notin plan.objects
              THEN <<ZodIssue(<<"meta", "duration">>, <<"Required">>)>>
              ELSE MemberIssues(plan, plan.meta, "duration.weeks", "meta.duration.weeks",
                                <<"meta", "duration", "weeks">>, TooSmall(1), NotInteger)
                \o MemberIssues(plan, plan.meta, "duration.total_hours",
                                "meta.duration.total_hours",
                                <<"meta", "duration", "total_hours">>,
                                TooSmall(1), TooBig(10000)))
          \o MemberIssues(plan, plan.meta, "delivery_mode", "meta.delivery_mode",
                          <<"meta", "delivery_mode">>, InvalidEnum, InvalidEnum)
          \o MemberIssues(plan, plan.meta, "cohort_profile", "meta.cohort_profile",
                          <<"meta", "cohort_profile">>, TooShort(10), TooShort(10)))
    \o (IF "weekly_plan" \notin plan.fields
        THEN <<ZodIssue(<<"weekly_plan">>, <<"Required">>)>>
        ELSE IF plan.weekly_plan = NotArray
        THEN <<ZodIssue(<<"weekly_plan">>, <<"Expected array">>)>>
        ELSE IF plan.weekly_plan = 0
        THEN <<ZodIssue(<<"weekly_plan">>, <<"Array must contain at least 1 element(s)">>)>>
        ELSE WeekIssues(plan.week_entries, 1))
    \o (IF "units" \notin plan.fields
        THEN <<ZodIssue(<<"units">>, <<"Required">>)>>
        ELSE IF plan.units = NotArray
        THEN <<ZodIssue(<<"units">>, <<"Expected array">>)>>
        ELSE IF plan.units = 0
        THEN <<ZodIssue(<<"units">>, <<"Array must contain at least 1 element(s)">>)>>
        ELSE UnitIssues(plan.unit_entries, 1))
    \o (IF "confidence_score" \notin plan.fields
        THEN <<ZodIssue(<<"confidence_score">>, <<"Required">>)>>
        ELSE IF plan.confidence_score = NotNumber
        THEN <<ZodIssue(<<"confidence_score">>, <<"Expected number">>)>>
        ELSE ZodIf(plan.confidence_score < 0, <<"confidence_score">>,
                   <<"Number must be greater than or equal to 0">>)
          \o ZodIf(plan.confidence_score > 10, <<"confidence_score">>,
                   <<"Number must be less than or equal to 1">>))

\* the value GeneratedPlanSchema.parse returns: the plan with the defaults
\* filled in
zodOutput(plan) ==
    [plan EXCEPT !.metadata = @ \cup {"project_type"}]

\* `${err.path.join('.')}: ${err.message}`
zodErrorText(issue) ==
    Join([i \in 1..Len(issue.path) |-> <<issue.path[i]>>], ".") \o <<": ">> \o issue.message

\* a validatePlan that hands back the parsed value next to the errors
validatePlanKeepsData(plan) ==
    LET issues == zodIssues(plan)
    IN  [success |-> Len(issues) = 0, hasData |-> TRUE, data |-> zodOutput(plan),
         hasErrors |-> Len(issues) > 0,
         errors |-> [i \in 1..Len(issues) |-> zodErrorText(issues[i])]]

\* validatePlan: {success: true, data} or {success: false, errors}
validatePlan(plan) ==
    LET issues == zodIssues(plan)
    IN  IF Len(issues) = 0
        THEN [success |-> TRUE, hasData |-> TRUE, data |-> zodOutput(plan),
              hasErrors |-> FALSE, errors |-> <<>>]
        ELSE [success |-> FALSE, hasData |-> FALSE, data |-> NoPlan,
              hasErrors |-> TRUE,
              errors |-> [i \in 1..Len(issues) |-> zodErrorText(issues[i])]]

(***************************************************************************)
(* APRV: errors, texts and phase results                                   *)
(***************************************************************************)

\* An Error object.  src and att stand for the object's identity: which
\* statement created it, in which attempt.
Err(message, src, att) == [message |-> message, src |-> src, att |-> att]

\* `lastError = null`
NoError == Err(<<>>, "none", 0)

formatUserError(error) ==
    IF Len(error.message) > 0
    THEN IF Includes(error.message, "API")
         THEN <<"Failed to communicate with AI service. Please check your ", "API", " key and try again.">>
         ELSE IF Includes(error.message, "JSON")
         THEN <<"The AI generated an invalid response format. Please try again.">>
         ELSE IF Includes(error.message, "Schema")
         THEN <<"The generated plan did not meet quality standards. Please try again with more specific requirements.">>
         ELSE error.message
    ELSE <<"An unexpected error occurred. Please try again.">>

\* messages of the errors that client.messages.stream / create can throw
TransportMessages == { <<"Connection error.">>, <<"Invalid ", "API", " key">> }

\* A response text is a sequence of tokens separated by white space:
\*   "w"        a word of prose, without braces or backticks
\*   "{" "}"    braces
\*   "m"        the members of the JSON object obj: it begins with a key and
\*              ends with the number of confidence_score, and the braces of
\*              the nested objects (metadata, meta, the array elements) lie
\*              in between
\*   "<fence>"  a code fence (three backquotes);  "<fence>json"  a code
\*              fence with its label
\*   "5" "null" the JSON literals
\* obj is the object that the JSON text { m } denotes in this response.
Text(tokens, obj) == [tokens |-> tokens, obj |-> obj]

\* the object {}
EmptyObject == [NoPlan EXCEPT !.kind = "object"]

\* The text streamed back by the model: a JSON document, a JSON object in a
\* fenced code block between prose, prose without braces, or the JSON
\* literal null.
ResponseTexts ==
    { Text(<<"{", "m", "}">>, c) : c \in Candidates \ {NumberPlan} }
    \cup { Text(<<"5">>, NoPlan),
           Text(<<"w", "<fence>json", "{", "m", "}", "<fence>", "w">>, GoodPlan),
           Text(<<"w", "w">>, NoPlan),
           Text(<<"null">>, NoPlan) }

\* the token sequences that are JSON documents
jsonParses(t) == t \in { <<"5">>, <<"null">>, <<"{", "}">>, <<"{", "m", "}">> }

\* JSON.parse(t): the value, or a SyntaxError thrown
JSONparse(text, t) ==
    IF jsonParses(t)
    THEN [threw |-> FALSE,
          value |-> CASE t = <<"null">> -> NoPlan
                      [] t = <<"5">> -> NumberPlan
                      [] t = <<"{", "}">> -> EmptyObject
                      [] OTHER -> text.obj]
    ELSE [threw |-> TRUE, value |-> NoPlan]

\* JSON.parse(t) outside any try block
TryParseUnguarded(text, t) == JSONparse(text, t)

\* try { return JSON.parse(t) } catch { return null }
TryParse(text, t) ==
    IF JSONparse(text, t).threw THEN [threw |-> FALSE, value |-> NoPlan]
    ELSE JSONparse(text, t)

IsFence(tok) == tok = "<fence>" \/ tok = "<fence>json"

\* the ends j of a match of /<fence>(?:json)?\s*(\{[\s\S]*\})\s*<fence>/ that starts
\* at the fence i: a closing brace followed by a fence
FenceEnds(t, i) ==
    { j \in (i + 2)..(Len(t) - 1) : t[j] = "}" /\ IsFence(t[j + 1]) }

\* the fences at which the pattern matches: a fence followed by "{"
FenceStarts(t) ==
    { i \in 1..(Len(t) - 1) : IsFence(t[i]) /\ t[i + 1] = "{" /\ FenceEnds(t, i) # {} }

SetMin(S) == CHOOSE x \in S : \A y \in S : x <= y
SetMax(S) == CHOOSE x \in S : \A y \in S : x >= y

\* text.match(/<fence>(?:json)?\s*(\{[\s\S]*\})\s*<fence>/)[1]: leftmost start,
\* greedy end; empty when there is no match
fencedMatch(t) ==
    IF FenceStarts(t) = {} THEN <<>>
    ELSE LET i == SetMin(FenceStarts(t))
         IN  SubSeq(t, i + 1, SetMax(FenceEnds(t, i)))

\* the pieces of "m" that a match keeps when it starts or ends at a brace
\* inside the members: from the first brace on, up to the last brace, and
\* from the first brace to the last
MembersFromBrace == "m[{..]"
MembersToBrace == "m[..}]"
MembersBraceToBrace == "m[{..}]"

\* text.match(/\{[\s\S]*\}/)[0]: from the first opening brace to the last
\* closing brace, those inside the members included; empty when there is no
\* match
braceMatch(t) ==
    LET opens == { i \in 1..Len(t) : t[i] \in {"{", "m"} }
        closes == { j \in 1..Len(t) : t[j] \in {"}", "m"} }
    IN  IF opens = {} \/ closes = {} \/ SetMax(closes) < SetMin(opens)
        THEN <<>>
        ELSE LET a == SetMin(opens)
                 b == SetMax(closes)
             IN  [k \in 1..(b - a + 1) |->
                    IF t[a + k - 1] # "m" THEN t[a + k - 1]
                    ELSE IF a = b THEN MembersBraceToBrace
                    ELSE IF k = 1 THEN MembersFromBrace
                    ELSE IF k = b - a + 1 THEN MembersToBrace
                    ELSE "m"]

\* extractJSON: what it returns (null is NoPlan) and whether it threw
extractJSON(text) ==
    IF ~JSONparse(text, text.tokens).threw
    THEN JSONparse(text, text.tokens)
    ELSE IF fencedMatch(text.tokens) # <<>>
    THEN TryParse(text, fencedMatch(text.tokens))
    ELSE IF braceMatch(text.tokens) # <<>>
    THEN TryParse(text, braceMatch(text.tokens))
    ELSE [threw |-> FALSE, value |-> NoPlan]

\* String.prototype.toLowerCase on a fragment
LowerFragment(f) ==
    CASE f = "GAP" -> "gap"
      [] f = "Missing" -> "missing"
      [] f = "No " -> "no "
      [] OTHER -> f

toLowerCase(s) == [i \in 1..Len(s) |-> LowerFragment(s[i])]

\* answers of the reflection call: the all-clear that buildReflectionPrompt
\* prescribes, another all-clear, a finding, and a non-text content block ('')
ReflectTexts ==
    { <<"No ", "issue", "s found.">>,
      <<"The plan looks good.">>,
      <<"Week 2 has a ", "GAP", " in assessment coverage.">>,
      <<>> }

hasIssuesOf(responseText) ==
    \/ Includes(toLowerCase(responseText), "issue")
    \/ Includes(toLowerCase(responseText), "gap")
    \/ Includes(toLowerCase(responseText), "missing")
    \/ Includes(toLowerCase(responseText), "incomplete")

\* reflectPhase, try branch: {hasIssues, issues}; the texts here are shorter
\* than 200 characters, so slice(0, 200) keeps them whole
reflectResult(responseText) ==
    [hasIssues |-> hasIssuesOf(responseText),
     issues |-> IF hasIssuesOf(responseText) THEN <<responseText>> ELSE <<>>]

reflectCatchResultFlagged == [hasIssues |-> TRUE, issues |-> <<<<"reflection failed">>>>]

\* reflectPhase, catch branch
reflectCatchResult == [hasIssues |-> FALSE, issues |-> <<>>]

\* IntakeFormData.  An optional object carries `present`; an optional string
\* or number is Absent when missing; an optional array is <<>> when missing
\* or empty (both fail the `?.length` test).  Numbers are written as the text
\* that template interpolation gives them.
NoQualification == [present |-> FALSE, title |-> Absent, code |-> Absent, level |-> Absent]
NoDuration == [present |-> FALSE, weeks |-> Absent, total_hours |-> Absent]
NoClassSize == [present |-> FALSE, min |-> Absent, max |-> Absent, target |-> Absent]
NoTrainerDetails == [present |-> FALSE, primary_trainer |-> Absent, additional_trainers |-> <<>>]
NoResources ==
    [present |-> FALSE, facilities |-> <<>>, equipment |-> <<>>, materials |-> <<>>,
     technology |-> <<>>]

\* an intake record with the required fields only
MinimalIntake ==
    [qualification |-> [present |-> TRUE, title |-> "Certificate IV in Training and Assessment",
                        code |-> Absent, level |-> Absent],
     duration |-> [present |-> TRUE, weeks |-> "12", total_hours |-> "120"],
     delivery_mode |-> "face_to_face",
     cohort_profile |-> "Adult learners changing career",
     resources |-> NoResources,
     assessment_preferences |-> <<>>,
     unit_list |-> Absent,
     trainer_details |-> NoTrainerDetails,
     start_date |-> Absent,
     venue |-> Absent,
     class_size |-> NoClassSize]

\* the values of the optional members
Qualifications ==
    { [MinimalIntake.qualification EXCEPT !.code = c, !.level = l] :
        c \in {Absent, "TAE40122"}, l \in {Absent, "Certificate IV"} }
ClassSizes ==
    {NoClassSize}
    \cup { [present |-> TRUE, min |-> a, max |-> b, target |-> c] :
             a \in {Absent, "0", "10"}, b \in {Absent, "20"}, c \in {Absent, "15"} }
TrainerDetails ==
    {NoTrainerDetails}
    \cup { [present |-> TRUE, primary_trainer |-> p, additional_trainers |-> a] :
             p \in {Absent, "J. Smith"}, a \in {<<>>, <<"A. Jones", "B. Lee">>} }
Resources ==
    {NoResources}
    \cup { [present |-> TRUE, facilities |-> f, equipment |-> e, materials |-> m,
            technology |-> t] :
             f \in {<<>>, <<"Classroom", "Workshop">>}, e \in {<<>>, <<"Computer Lab">>},
             m \in {<<>>, <<"Workbooks">>}, t \in {<<>>, <<"LMS">>} }

\* a delivery_mode that is truthy and not a string: the number 5
NonStringMode == "<number 5>"

\* intake records with every required member, optional members in any
\* combination
CompleteIntakes ==
    { [MinimalIntake EXCEPT !.qualification = q, !.resources = r,
                            !.assessment_preferences = ap, !.unit_list = u,
                            !.trainer_details = td, !.start_date = sd, !.venue = v,
                            !.class_size = cs] :
        q \in Qualifications, r \in Resources,
        ap \in {<<>>, <<"practical", "portfolio">>},
        u \in {Absent, "BSBWHS411 Implement WHS"},
        td \in TrainerDetails, sd \in {Absent, "", "2025-02-03"},
        v \in {Absent, "Main Campus"}, cs \in ClassSizes }

\* intake records that lack a required member
IncompleteIntakes ==
    { [MinimalIntake EXCEPT !.qualification = NoQualification],
      [MinimalIntake EXCEPT !.qualification.title = Absent],
      [MinimalIntake EXCEPT !.duration = NoDuration],
      [MinimalIntake EXCEPT !.duration.weeks = Absent],
      [MinimalIntake EXCEPT !.delivery_mode = Absent],
      [MinimalIntake EXCEPT !.delivery_mode = NonStringMode],
      [MinimalIntake EXCEPT !.cohort_profile = Absent] }

Intakes == CompleteIntakes \cup IncompleteIntakes

\* a string member is truthy: it is there and it is not the empty string
Truthy(v) == v # Absent /\ v # ""

\* template interpolation of a member: `undefined` when it is missing
Interpolate(v) == IF v = Absent THEN "undefined" ELSE v

\* (total_hours / weeks).toFixed(1), for the durations of Intakes
HoursPerWeek(d) ==
    IF d.weeks = "12" /\ d.total_hours = "120" THEN "10.0" ELSE "NaN"

\* delivery_mode.replace(/_/g, ' ').toUpperCase(), for the three modes
ModeHeading(mode) ==
    CASE mode = "face_to_face" -> "FACE TO FACE"
      [] mode = "online" -> "ONLINE"
      [] mode = "blended" -> "BLENDED"
      [] OTHER -> mode

\* array.join(', ') on an array of words
JoinWords(a) == Join([i \in 1..Len(a) |-> <<a[i]>>], ", ")

\* `label value` appended when cond holds
Labelled(cond, label, value) == IF cond THEN <<label>> \o value ELSE <<>>

\* class_size.min || 'TBD': a missing bound and the bound 0 are falsy
OrTBD(v) == IF v = Absent \/ v = "0" THEN "TBD" ELSE v

\* buildUserPrompt reads a member of an object that is undefined
\* (intake.qualification.title, intake.duration.weeks) or calls replace on
\* an undefined delivery_mode: a TypeError
buildUserPromptThrows(intake) ==
    \/ ~intake.qualification.present
    \/ ~intake.duration.present
    \/ intake.delivery_mode = Absent
    \/ intake.delivery_mode = NonStringMode

\* the message of that TypeError: the first member read that fails
buildUserPromptError(intake) ==
    IF ~intake.qualification.present
    THEN <<"Cannot read properties of undefined (reading 'title')">>
    ELSE IF ~intake.duration.present
    THEN <<"Cannot read properties of undefined (reading 'weeks')">>
    ELSE IF intake.delivery_mode = Absent
    THEN <<"Cannot read properties of undefined (reading 'replace')">>
    ELSE <<"intake.delivery_mode.replace is not a function">>

\* the text that buildUserPrompt assembles
PromptText(intake, previousError) ==
    <<"Generate a comprehensive unit plan for the following Australian RTO training program:",
      "QUALIFICATION", "Title: ", Interpolate(intake.qualification.title)>>
    \o Labelled(Truthy(intake.qualification.code), "Code: ", <<intake.qualification.code>>)
    \o Labelled(Truthy(intake.qualification.level), "Level: ", <<intake.qualification.level>>)
    \o <<"DURATION", "Weeks: ", Interpolate(intake.duration.weeks),
         "Total Hours: ", Interpolate(intake.duration.total_hours),
         "Hours per Week: ", HoursPerWeek(intake.duration),
         "DELIVERY MODE", ModeHeading(intake.delivery_mode),
         "COHORT PROFILE", Interpolate(intake.cohort_profile)>>
    \o Labelled(Truthy(intake.start_date), "START DATE: ", <<intake.start_date>>)
    \o Labelled(Truthy(intake.venue), "VENUE: ", <<intake.venue>>)
    \o (IF intake.class_size.present
        THEN <<"CLASS SIZE: ", "Min ", OrTBD(intake.class_size.min),
               "Max ", OrTBD(intake.class_size.max),
               "Target ", OrTBD(intake.class_size.target)>>
        ELSE <<>>)
    \o Labelled(intake.trainer_details.present
                  /\ Truthy(intake.trainer_details.primary_trainer),
                "PRIMARY TRAINER: ", <<intake.trainer_details.primary_trainer>>)
    \o (IF intake.resources.present
        THEN <<"AVAILABLE RESOURCES:">>
             \o Labelled(Len(intake.resources.facilities) > 0, "Facilities: ",
                         JoinWords(intake.resources.facilities))
             \o Labelled(Len(intake.resources.equipment) > 0, "Equipment: ",
                         JoinWords(intake.resources.equipment))
             \o Labelled(Len(intake.resources.technology) > 0, "Technology: ",
                         JoinWords(intake.resources.technology))
        ELSE <<>>)
    \o Labelled(Len(intake.assessment_preferences) > 0, "ASSESSMENT PREFERENCES: ",
                JoinWords(intake.assessment_preferences))
    \o Labelled(Truthy(intake.unit_list), "UNIT LIST (if provided):", <<intake.unit_list>>)
    \o (IF previousError # NoError
        THEN <<"PREVIOUS GENERATION FAILED - PLEASE FIX:">> \o previousError.message
             \o <<"Please address the above issues and generate a corrected plan.">>
        ELSE <<>>)
    \o <<"Return ONLY the JSON response, no additional text or markdown.">>

\* buildUserPrompt: the intake block, the repair section when previousError
\* is set, the closing instructions; or a TypeError thrown
buildUserPrompt(intake, previousError) ==
    IF buildUserPromptThrows(intake)
    THEN [threw |-> TRUE, value |-> <<>>]
    ELSE [threw |-> FALSE, value |-> PromptText(intake, previousError)]

\* context.logs = [log] instead of context.logs.push(log)
logPhaseOverwrite(ctx, phase, status, details) ==
    [ctx EXCEPT !.logs = <<[phase |-> phase, status |-> status, details |-> details]>>]

\* context.logs.push(log)
logPhase(ctx, phase, status, details) ==
    [ctx EXCEPT !.logs = Append(@, [phase |-> phase, status |-> status, details |-> details])]

(***************************************************************************)
(* APRV: generateWithAPRV and executeAPRVLoop                              *)
(***************************************************************************)

\* one entry of the history `calls`
Ev(ev, att, plan, err, ok, issues, text) ==
    [ev |-> ev, att |-> att, plan |-> plan, err |-> err, ok |-> ok,
     issues |-> issues, text |-> text]

\* generateWithAPRV has not returned yet.  validation_errors is a member of
\* GeneratedPlan that no statement assigns: it stays empty.
NoResult ==
    [returned |-> FALSE, success |-> FALSE, hasPlan |-> FALSE, plan |-> NoPlan,
     error |-> <<>>, validation_errors |-> <<>>, attempts |-> 0, phase_logs |-> <<>>]

\* for (...; attempt <= context.maxAttempts; ...)
AprvLoopCondStrict(att, ctx) == att < ctx.maxAttempts

AprvLoopCond(att, ctx) == att <= ctx.maxAttempts

\* if (reflectResult.hasIssues && attempt < context.maxAttempts) ... continue
ReflectRetries(r, att, ctx) == r.hasIssues /\ att < ctx.maxAttempts

\* if (validationResult.valid) ... return planResult
VerifyPassedAlways(v) == TRUE

VerifyPassed(v) == v.valid

\* if (attempt < context.maxAttempts) ... lastError = new Error(...)
RepairAvailable(att, ctx) == att < ctx.maxAttempts

\* catch: if (attempt >= context.maxAttempts) throw error
CatchRethrows(att, ctx) == att >= ctx.maxAttempts

\* catch: lastError = error
CaughtErrorKeepOld(old, error) == old

CaughtError(old, error) == error

\* the context that generateWithAPRV creates
NewContext(intake) ==
    [intake |-> intake, logs |-> <<>>, attempts |-> 0, maxAttempts |-> MAX_REPAIR_ATTEMPTS]

\* the intake records handed to generateWithAPRV: one that buildUserPrompt
\* serializes, one on which it throws
OrchestratorIntakes == {MinimalIntake, [MinimalIntake EXCEPT !.delivery_mode = NonStringMode]}

InitAPRV ==
    /\ pc = "start"
    /\ attempt = 0
    /\ context \in { NewContext(i) : i \in OrchestratorIntakes }
    /\ lastError = NoError
    /\ lastPlan = NoPlan
    /\ planResult = NoPlan
    /\ result = NoResult
    /\ calls = <<>>

\* return {success: true, plan: result, attempts: <the loop index>, ...}
SucceedReportsLoopIndex(plan, ctx, cs) ==
    /\ pc' = "done"
    /\ context' = ctx
    /\ calls' = cs
    /\ result' = [returned |-> TRUE, success |-> TRUE, hasPlan |-> TRUE, plan |-> plan,
                  error |-> <<>>, validation_errors |-> <<>>,
                  attempts |-> ctx.attempts - 1, phase_logs |-> ctx.logs]

\* generateWithAPRV: return {success: true, plan: result, attempts, phase_logs}
Succeed(plan, ctx, cs) ==
    /\ pc' = "done"
    /\ context' = ctx
    /\ calls' = cs
    /\ result' = [returned |-> TRUE, success |-> TRUE, hasPlan |-> TRUE, plan |-> plan,
                  error |-> <<>>, validation_errors |-> <<>>,
                  attempts |-> ctx.attempts, phase_logs |-> ctx.logs]

\* generateWithAPRV, catch: return {success: false, error: formatUserError(error), ...}
Fail(error, ctx, cs) ==
    /\ pc' = "done"
    /\ context' = ctx
    /\ calls' = Append(cs, Ev("fatal", ctx.attempts, NoPlan, error, FALSE, <<>>, <<>>))
    /\ result' = [returned |-> TRUE, success |-> FALSE, hasPlan |-> FALSE, plan |-> NoPlan,
                  error |-> formatUserError(error), validation_errors |-> <<>>,
                  attempts |-> ctx.attempts, phase_logs |-> ctx.logs]

RECURSIVE PromptThrowLoop(_, _, _, _)
\* The iterations att.. of the loop while buildUserPrompt throws: the
\* catch of analyzePlanPhase logs the failure and rethrows, the catch of the
\* loop body keeps the error and goes on to the next iteration or rethrows.
\* No call is issued.  The loop index, lastError, the error thrown, the
\* context and the history at the throw that leaves the loop.
PromptThrowLoop(att, lastErr, ctx, cs) ==
    IF ~AprvLoopCond(att, ctx)
    THEN [att |-> att, lastErr |-> lastErr,
          error |-> IF lastErr # NoError THEN lastErr
                    ELSE Err(<<"APRV loop failed after maximum attempts">>, "loop", att),
          ctx |-> ctx, cs |-> cs]
    ELSE LET error == Err(buildUserPromptError(ctx.intake), "prompt", att + 1)
             c1 == logPhase([ctx EXCEPT !.attempts = att + 1], "plan", "failure",
                            <<"Generation failed after <ms>: ">> \o error.message)
             cs1 == Append(cs, Ev("promptThrew", att + 1, NoPlan, error, FALSE, <<>>, <<>>))
         IN  IF CatchRethrows(att, c1)
             THEN [att |-> att, lastErr |-> CaughtError(lastErr, error), error |-> error,
                   ctx |-> c1, cs |-> cs1]
             ELSE PromptThrowLoop(att + 1, CaughtError(lastErr, error),
                                  logPhase(c1, "repair", "warning",
                                           <<"Attempt ", ToString(att + 1), " failed: ">>
                                           \o error.message \o <<". Retrying...">>),
                                  cs1)

\* The loop test and, when it holds, the iteration up to the first await:
\* context.attempts = attempt + 1, then analyzePlanPhase builds the prompt,
\* logs and issues the streaming call.  When buildUserPrompt throws, the
\* iterations follow each other without an await, up to the catch of
\* generateWithAPRV.
EnterIteration(att, lastErr, ctx, cs) ==
    IF AprvLoopCond(att, ctx)
    THEN IF buildUserPrompt(ctx.intake, lastErr).threw
         THEN \E f \in {PromptThrowLoop(att, lastErr, ctx, cs)} :
                /\ attempt' = f.att
                /\ lastError' = f.lastErr
                /\ Fail(f.error, f.ctx, f.cs)
         ELSE /\ attempt' = att
              /\ lastError' = lastErr
              /\ pc' = "plan"
              /\ context' = logPhase([ctx EXCEPT !.attempts = att + 1], "analyze", "success",
                                     <<"Starting generation with Claude ", "API">>)
              /\ calls' = Append(cs, Ev("generate", att + 1, NoPlan, lastErr, TRUE, <<>>,
                                        buildUserPrompt(ctx.intake, lastErr).value))
              /\ result' = result
    ELSE \* throw lastError || new Error('APRV loop failed after maximum attempts')
         /\ attempt' = att
         /\ lastError' = lastErr
         /\ IF lastErr # NoError
            THEN Fail(lastErr, ctx, cs)
            ELSE Fail(Err(<<"APRV loop failed after maximum attempts">>, "loop", att), ctx, cs)

\* the catch block of the loop body
CatchInLoop(error, ctx, cs) ==
    IF CatchRethrows(attempt, ctx)
    THEN /\ lastError' = CaughtError(lastError, error)
         /\ attempt' = attempt
         /\ Fail(error, ctx, cs)
    ELSE EnterIteration(attempt + 1, CaughtError(lastError, error),
                        logPhase(ctx, "repair", "warning",
                                 <<"Attempt ", ToString(attempt + 1), " failed: ">>
                                 \o error.message \o <<". Retrying...">>),
                        cs)

\* generateWithAPRV up to the first generation call
LoadSystemPrompt ==
    /\ pc = "start"
    /\ EnterIteration(0, NoError,
                      logPhase(context, "analyze", "success", <<"System prompt loaded successfully">>),
                      calls)
    /\ UNCHANGED <<lastPlan, planResult>>
    /\ UNCHANGED <<retryVars, routeVars, storeVars, probe>>

\* loadSystemPrompt throws: the catch of generateWithAPRV
LoadSystemPromptFails ==
    /\ pc = "start"
    /\ Fail(Err(<<"Failed to load system prompt file. Ensure prompts/system.md exists.">>, "load", 0),
            context, calls)
    /\ UNCHANGED <<attempt, lastError, lastPlan, planResult>>
    /\ UNCHANGED <<retryVars, routeVars, storeVars, probe>>

\* analyzePlanPhase: the streaming call throws
GenerateThrows ==
    /\ pc = "plan"
    /\ \E m \in TransportMessages :
        LET error == Err(m, "generate", context.attempts)
        IN  CatchInLoop(error,
                        logPhase(context, "plan", "failure",
                                 <<"Generation failed after <ms>: ">> \o m),
                        Append(calls, Ev("generateFailed", context.attempts, NoPlan, error,
                                         FALSE, <<>>, <<>>)))
    /\ UNCHANGED <<lastPlan, planResult>>
    /\ UNCHANGED <<retryVars, routeVars, storeVars, probe>>

\* analyzePlanPhase: the stream completes but extractJSON finds nothing
GenerateNoJSON ==
    /\ pc = "plan"
    /\ \E text \in ResponseTexts :
        /\ extractJSON(text).value.kind = "null"
        /\ LET m == <<"Failed to extract valid ", "JSON", " from Claude response">>
               error == Err(m, "extract", context.attempts)
           IN  CatchInLoop(error,
                           logPhase(context, "plan", "failure",
                                    <<"Generation failed after <ms>: ">> \o m),
                           Append(calls, Ev("generateFailed", context.attempts, NoPlan, error,
                                            FALSE, <<>>, <<>>)))
    /\ UNCHANGED <<lastPlan, planResult>>
    /\ UNCHANGED <<retryVars, routeVars, storeVars, probe>>

\* analyzePlanPhase returns a plan; the loop stores it and calls reflectPhase,
\* which builds its prompt and issues the reflection call
GenerateReturnsPlan ==
    /\ pc = "plan"
    /\ \E text \in ResponseTexts :
        /\ extractJSON(text).value.kind # "null"
        /\ planResult' = extractJSON(text).value
        /\ lastPlan' = extractJSON(text).value
        /\ calls' = Append(calls, Ev("candidate", context.attempts, extractJSON(text).value, NoError,
                                     TRUE, <<>>, <<>>))
    /\ context' = logPhase(context, "plan", "success", <<"Generated plan in <ms>">>)
    /\ pc' = "reflect"
    /\ UNCHANGED <<attempt, lastError, result>>
    /\ UNCHANGED <<retryVars, routeVars, storeVars, probe>>

\* after reflectPhase returned r: repair (continue) or go on to verifyPhase
AfterReflect(r, ctx, cs) ==
    IF ReflectRetries(r, attempt, ctx)
    THEN LET err == Err(<<"Reflection ", "issue", "s: ">> \o Join(r.issues, "; "),
                        "reflection", ctx.attempts)
         IN  EnterIteration(attempt + 1, err,
                            logPhase(ctx, "reflect", "warning",
                                     <<"Issues identified: ">> \o Join(r.issues, ", ")),
                            cs)
    ELSE /\ pc' = "verify"
         /\ context' = ctx
         /\ calls' = cs
         /\ UNCHANGED <<attempt, lastError, result>>

\* reflectPhase: the reflection call throws (or its content is empty)
ReflectThrows ==
    /\ pc = "reflect"
    /\ \E m \in TransportMessages :
        AfterReflect(reflectCatchResult,
                     logPhase(context, "reflect", "warning",
                              <<"Reflection failed after <ms>: ">> \o m \o <<". Continuing...">>),
                     Append(calls, Ev("reflectThrew", context.attempts, planResult,
                                      Err(m, "reflect", context.attempts),
                                      ~reflectCatchResult.hasIssues, <<>>, <<>>)))
    /\ UNCHANGED <<lastPlan, planResult>>
    /\ UNCHANGED <<retryVars, routeVars, storeVars, probe>>

\* reflectPhase: the reflection call answers
ReflectAnswers ==
    /\ pc = "reflect"
    /\ \E responseText \in ReflectTexts :
        LET r == reflectResult(responseText)
        IN  AfterReflect(r,
                         logPhase(context, "reflect",
                                  IF r.hasIssues THEN "warning" ELSE "success",
                                  IF r.hasIssues THEN <<"Issues found in <ms>">>
                                                 ELSE <<"No issues found in <ms>">>),
                         Append(calls, Ev("reflect", context.attempts, planResult, NoError,
                                          ~r.hasIssues, <<>>, responseText)))
    /\ UNCHANGED <<lastPlan, planResult>>
    /\ UNCHANGED <<retryVars, routeVars, storeVars, probe>>

\* verifyPhase and the rest of the loop body; v is the one value that
\* verifyPhase returns
Verify ==
    /\ pc = "verify"
    /\ \E v \in {validateAgainstSchema(planResult, SchemaRequired)} :
       LET n == ToString(Len(v.errors))
           ctx1 == IF v.valid
                   THEN logPhase(context, "verify", "success",
                                 <<"Schema validation passed in <ms>">>)
                   ELSE logPhase(context, "verify", "failure",
                                 <<"Schema validation failed in <ms>: ", n, " errors">>)
           cs1 == Append(calls, Ev("verify", context.attempts, planResult, NoError,
                                   v.valid, v.errors, <<>>))
       IN  IF VerifyPassed(v)
           THEN /\ Succeed(planResult,
                           logPhase(ctx1, "verify", "success", <<"Schema validation passed">>),
                           cs1)
                /\ UNCHANGED <<attempt, lastError>>
           ELSE IF RepairAvailable(attempt, context)
           THEN LET err == Err(<<"Schema", " validation errors: ">>
                               \o formatValidationErrors(v.errors),
                               "validation", context.attempts)
                IN  EnterIteration(attempt + 1, err,
                                   logPhase(ctx1, "verify", "warning",
                                            <<"Schema validation failed: ", n,
                                              " errors. Attempting repair...">>),
                                   cs1)
           ELSE CatchInLoop(Err(<<"Schema", " validation failed: ">>
                                \o formatValidationErrors(v.errors),
                                "validation", context.attempts),
                            logPhase(ctx1, "verify", "failure",
                                     <<"Schema validation failed after max repair attempts">>),
                            cs1)
    /\ UNCHANGED <<lastPlan, planResult>>
    /\ UNCHANGED <<retryVars, routeVars, storeVars, probe>>

NextAPRV ==
    \/ LoadSystemPrompt
    \/ LoadSystemPromptFails
    \/ GenerateThrows
    \/ GenerateNoJSON
    \/ GenerateReturnsPlan
    \/ ReflectThrows
    \/ ReflectAnswers
    \/ Verify

(***************************************************************************)
(* POST /api/generate (src/unnamed/part_005) and validateEnv               *)
(***************************************************************************)

\* process.env and the files of a configured deployment
DefaultEnv ==
    [ANTHROPIC_API_KEY |-> <<"sk-", "ant-api03-0123456789">>,
     NEXT_PUBLIC_API_MODEL |-> <<"claude-3-5-sonnet-20241022">>,
     schemaFile |-> TRUE]

\* deployments: any API key; prompts/schema.json readable or not.  The model
\* name is never empty: getEnvVar falls back to its default.
Envs ==
    { [DefaultEnv EXCEPT !.ANTHROPIC_API_KEY = k, !.schemaFile = f] :
        k \in ApiKeys, f \in BOOLEAN }

\* the resources member of a body: absent (or a falsy value), a truthy value
\* without a filter method (a string, a number, an object), or an array
NoResourcesMember == [kind |-> "absent", items |-> <<>>]
NotArrayMember == [kind |-> "notArray", items |-> <<>>]
ArrayMember(items) == [kind |-> "array", items |-> items]

\* elements of a resources array that are no strings: the number 5 and null
\* have no includes method, the array ['x'] has one
NumberElement == "<number 5>"
NullElement == "<null>"
ArrayElement == "<array ['x']>"

\* A request.  json: the body is JSON; isNull: it is the JSON value null;
\* the other members are the members of the body, Absent when the body has
\* no such member (or is no object: 5, "text", [], {}).
NoRequest ==
    [json |-> FALSE, isNull |-> FALSE, qualification |-> Absent,
     qualificationCode |-> Absent, durationWeeks |-> Absent, totalHours |-> Absent,
     deliveryMode |-> Absent, cohortProfile |-> Absent,
     resources |-> NoResourcesMember, assessmentPreferences |-> <<>>,
     unitList |-> Absent]

\* a body without members
EmptyRequest == [NoRequest EXCEPT !.json = TRUE]

\* a body with the two required members and nothing else
MinimalRequest ==
    [EmptyRequest EXCEPT !.qualification = "Certificate IV in Training and Assessment",
                         !.deliveryMode = "face_to_face"]

\* a body with every member that the route reads
GoodRequest ==
    [MinimalRequest EXCEPT
        !.qualificationCode = "TAE40122",
        !.durationWeeks = "12",
        !.totalHours = "120",
        !.cohortProfile = "Adult learners changing career",
        !.resources = ArrayMember(<<"Classroom/Training Room", "Computer Lab",
                                    "Other Specialized Equipment",
                                    "Library/Resource Centre", "classroom",
                                    "Online Learning Platform (LMS)">>),
        !.assessmentPreferences = <<"practical", "portfolio">>,
        !.unitList = "BSBWHS411 Implement WHS"]

\* requests: not JSON; null; no member; one required member missing or
\* the empty string; the required members alone; every member; deliveryMode
\* 5; resources of each kind
Requests ==
    { NoRequest,
      [EmptyRequest EXCEPT !.isNull = TRUE],
      EmptyRequest,
      [MinimalRequest EXCEPT !.qualification = ""],
      [MinimalRequest EXCEPT !.deliveryMode = Absent],
      MinimalRequest,
      GoodRequest,
      [MinimalRequest EXCEPT !.deliveryMode = NonStringMode],
      [MinimalRequest EXCEPT !.resources = NotArrayMember],
      [MinimalRequest EXCEPT !.resources = ArrayMember(<<NumberElement>>)],
      [MinimalRequest EXCEPT !.resources = ArrayMember(<<"Computer Lab", NullElement,
                                                          NumberElement>>)],
      [MinimalRequest EXCEPT !.resources = ArrayMember(<<ArrayElement>>)] }

\* r.includes is a function: r is a string or an array
HasIncludes(r) == r \notin {NumberElement, NullElement}

\* ['Classroom/Training Room', 'Workshop/Practical Space'].includes(r)
IsFacility(r) == r \in {"Classroom/Training Room", "Workshop/Practical Space"}

\* the resource names that contain 'Equipment'; the labels and values of the
\* intake form hold one such name
NamesWithEquipment ==
    {"Other Specialized Equipment", "Training Equipment", "Safety Equipment", "Equipment"}

\* r.includes('Equipment') || r === 'Computer Lab', for an r with includes
IsEquipment(r) == r \in NamesWithEquipment \/ r = "Computer Lab"

\* r === 'Online Learning Platform (LMS)'
IsTechnology(r) == r = "Online Learning Platform (LMS)"

\* the first element of the array on which r.includes(...) throws; 0 when
\* there is none
FirstWithoutIncludes(items) ==
    IF \A i \in 1..Len(items) : HasIncludes(items[i]) THEN 0
    ELSE CHOOSE i \in 1..Len(items) :
            /\ ~HasIncludes(items[i])
            /\ \A j \in 1..(i - 1) : HasIncludes(items[j])

\* building adaptedIntake throws a TypeError: resources is truthy and has no
\* filter method, or the equipment filter meets an element without an
\* includes method
adaptedIntakeThrows(req) ==
    \/ req.resources.kind = "notArray"
    \/ req.resources.kind = "array" /\ FirstWithoutIncludes(req.resources.items) # 0

\* the message of that TypeError
adaptedIntakeError(req) ==
    IF req.resources.kind = "notArray"
    THEN <<"intakeData.resources.filter is not a function">>
    ELSE IF req.resources.items[FirstWithoutIncludes(req.resources.items)] = NullElement
    THEN <<"Cannot read properties of null (reading 'includes')">>
    ELSE <<"r.includes is not a function">>

\* adaptedIntake: the members of the body under the names of IntakeFormData,
\* undefined where the body has none; a resources array is sorted into
\* facilities, equipment and technology
adaptedIntake(req) ==
    [qualification |-> [present |-> TRUE, title |-> req.qualification,
                        code |-> req.qualificationCode, level |-> Absent],
     duration |-> [present |-> TRUE, weeks |-> req.durationWeeks,
                   total_hours |-> req.totalHours],
     delivery_mode |-> req.deliveryMode,
     cohort_profile |-> req.cohortProfile,
     resources |-> IF req.resources.kind = "absent" THEN NoResources
                   ELSE [present |-> TRUE,
                         facilities |-> SelectSeq(req.resources.items, IsFacility),
                         equipment |-> SelectSeq(req.resources.items, IsEquipment),
                         materials |-> <<>>,
                         technology |-> SelectSeq(req.resources.items, IsTechnology)],
     assessment_preferences |-> req.assessmentPreferences,
     unit_list |-> req.unitList,
     trainer_details |-> NoTrainerDetails,
     start_date |-> Absent,
     venue |-> Absent,
     class_size |-> NoClassSize]

NoResponse ==
    [sent |-> FALSE, status |-> 0, success |-> FALSE, error |-> <<>>, details |-> <<>>,
     hasPlan |-> FALSE, plan |-> NoPlan, logs |-> <<>>]

\* NextResponse.json({error, details, logs}, {status})
ErrorResponse(status, error, details, logs) ==
    [sent |-> TRUE, status |-> status, success |-> FALSE, error |-> error,
     details |-> details, hasPlan |-> FALSE, plan |-> NoPlan, logs |-> logs]

\* NextResponse.json({success: true, plan, metadata: {duration_ms, logs}})
PlanResponse(plan, logs) ==
    [sent |-> TRUE, status |-> 200, success |-> TRUE, error |-> <<>>, details |-> <<>>,
     hasPlan |-> TRUE, plan |-> plan, logs |-> logs]

\* validateEnv without the startsWith('sk-') check
validateEnvNoFormat(e) ==
    (IF Len(e.ANTHROPIC_API_KEY) = 0
     THEN << <<"ANTHROPIC_API_KEY is required. Please set it in your .env.local file.">> >>
     ELSE <<>>)
    \o (IF e.ANTHROPIC_API_KEY = <<"your-key-here">> \/ e.ANTHROPIC_API_KEY = <<"your_api_key_here">>
        THEN << <<"ANTHROPIC_API_KEY is set to a placeholder value. Please provide a valid ", "API", " key.">> >>
        ELSE <<>>)

\* validateEnv: the errors it collects; it throws when there is one
validateEnv(e) ==
    (IF Len(e.ANTHROPIC_API_KEY) = 0
     THEN << <<"ANTHROPIC_API_KEY is required. Please set it in your .env.local file.">> >>
     ELSE <<>>)
    \o (IF Len(e.NEXT_PUBLIC_API_MODEL) = 0
        THEN << <<"NEXT_PUBLIC_API_MODEL is missing. Using default: claude-3-5-sonnet-20241022">> >>
        ELSE <<>>)
    \o (IF Len(e.ANTHROPIC_API_KEY) > 0 /\ ~StartsWith(e.ANTHROPIC_API_KEY, "sk-")
        THEN << <<"ANTHROPIC_API_KEY appears to be invalid. It should start with \"sk-\"">> >>
        ELSE <<>>)
    \o (IF e.ANTHROPIC_API_KEY = <<"your-key-here">> \/ e.ANTHROPIC_API_KEY = <<"your_api_key_here">>
        THEN << <<"ANTHROPIC_API_KEY is set to a placeholder value. Please provide a valid ", "API", " key.">> >>
        ELSE <<>>)

\* (result as any).logs || []: the value of the member `logs` of the object
\* that generateWithAPRV returned
LogsMemberOf(res) ==
    IF "logs" \in DOMAIN res THEN res.logs ELSE <<>>

\* no request is being handled
InitNoRequest ==
    /\ env = DefaultEnv
    /\ routePc = "idle"
    /\ request = NoRequest
    /\ response = NoResponse

\* POST: validateEnv() and its catch
PostValidateEnv ==
    /\ routePc = "received"
    /\ IF Len(validateEnv(env)) > 0
       THEN /\ routePc' = "responded"
            /\ response' = ErrorResponse(500, <<"Server configuration error">>,
                                          validateEnv(env), <<>>)
       ELSE /\ routePc' = "parsing"
            /\ response' = response
    /\ UNCHANGED <<env, request>>
    /\ UNCHANGED <<retryVars, aprvVars, storeVars, probe>>

\* POST: await request.json() and the check of the required fields
PostParseBody ==
    /\ routePc = "parsing"
    /\ IF ~request.json
       THEN /\ routePc' = "responded"
            /\ response' = ErrorResponse(400, <<"Invalid request body. Expected ", "JSON", ".">>,
                                          <<>>, <<>>)
       ELSE IF request.isNull
       THEN \* `intakeData.qualification` throws on null: the outer catch
            /\ routePc' = "responded"
            /\ response' = ErrorResponse(500, <<"Internal server error">>,
                                          << <<"Cannot read properties of null (reading 'qualification')">> >>,
                                          <<>>)
       ELSE IF ~Truthy(request.qualification) \/ ~Truthy(request.deliveryMode)
       THEN /\ routePc' = "responded"
            /\ response' = ErrorResponse(400, <<"Missing required fields">>,
                                          << <<"qualification and deliveryMode are required">> >>,
                                          <<>>)
       ELSE /\ routePc' = "loadingSchema"
            /\ response' = response
    /\ UNCHANGED <<env, request>>
    /\ UNCHANGED <<retryVars, aprvVars, storeVars, probe>>

\* POST: readFile(prompts/schema.json) fails
PostSchemaLoadFails ==
    /\ routePc = "loadingSchema"
    /\ ~env.schemaFile
    /\ routePc' = "responded"
    /\ response' = ErrorResponse(500, <<"Failed to load validation schema">>, <<>>, <<>>)
    /\ UNCHANGED <<env, request>>
    /\ UNCHANGED <<retryVars, aprvVars, storeVars, probe>>

\* POST: the schema is loaded, the Anthropic client is created, the intake
\* is adapted and generateWithAPRV(adaptedIntake, client, schema) is called;
\* a TypeError of the adaptation goes to the outer catch
PostCallsGenerate ==
    /\ routePc = "loadingSchema"
    /\ env.schemaFile
    /\ pc = "idle"
    /\ IF adaptedIntakeThrows(request)
       THEN /\ routePc' = "responded"
            /\ response' = ErrorResponse(500, <<"Internal server error">>,
                                          << adaptedIntakeError(request) >>, <<>>)
            /\ UNCHANGED <<pc, context>>
       ELSE /\ routePc' = "generating"
            /\ pc' = "start"
            /\ context' = NewContext(adaptedIntake(request))
            /\ response' = response
    /\ UNCHANGED <<attempt, lastError, lastPlan, planResult, result, calls>>
    /\ UNCHANGED <<env, request>>
    /\ UNCHANGED <<retryVars, storeVars, probe>>

\* POST: generateWithAPRV has returned; the final validatePlan and the response
PostRespond ==
    /\ routePc = "generating"
    /\ pc = "done"
    /\ routePc' = "responded"
    /\ IF ~result.success \/ ~result.hasPlan
       THEN response' = ErrorResponse(500, <<"Generation failed">>,
                                      << IF Len(result.error) > 0 THEN result.error
                                         ELSE <<"Unknown error occurred during generation">> >>,
                                      LogsMemberOf(result))
       ELSE IF ~validatePlan(result.plan).success
       THEN response' = ErrorResponse(500, <<"Generated plan failed validation">>,
                                      validatePlan(result.plan).errors,
                                      LogsMemberOf(result))
       ELSE response' = PlanResponse(validatePlan(result.plan).data, LogsMemberOf(result))
    /\ UNCHANGED <<env, request>>
    /\ UNCHANGED <<retryVars, aprvVars, storeVars, probe>>

NextRoute ==
    \/ PostValidateEnv
    \/ PostParseBody
    \/ PostSchemaLoadFails
    \/ PostCallsGenerate
    \/ PostRespond
    \/ NextAPRV

(***************************************************************************)
(* localStorage persistence (storage.ts) and HomePage (page.tsx)           *)
(***************************************************************************)

\* most savePlan calls in one behaviour
MaxSaves == 12

\* most requests of one page that await their response at a time
MaxRequests == 2

\* The space that the items take, key and value, in units of about ten
\* bytes: the test item of isStorageAvailable ('__storage_test__' twice),
\* the history item with an empty array, the settings object, an intake
\* record, a stored plan (plan, intake and dates) of the usual and of a
\* greater length.
TestSize == 3
EmptyArraySize == 2
SettingsSize == 8
IntakeSize == 30
SmallPlanSize == 100
LargePlanSize == 112

\* the room that localStorage has left for this program: for one plan; for
\* three plans and their history; for that and a long current plan, without
\* room for the test item; for everything this program stores
TinyQuota == 104
SmallQuota == 410
TightQuota == 415
LargeQuota == 10000

\* An item of localStorage is <<>> when the key is not set and <<v>> when
\* it holds the JSON text of v (getItem returns null for the former).
EmptyStore == [plans |-> <<>>, current |-> <<>>, lastIntake |-> <<>>, settings |-> <<>>]

DEFAULT_SETTINGS == [autoSave |-> TRUE, keepHistory |-> TRUE, maxHistoryItems |-> 10]

\* a StoredPlan: ids are issued in the order of creation, so the id stands
\* for createdAt as well; the plan and intake payloads go with the id
StoredPlan(id) == [id |-> id]

\* the length of JSON.stringify(storedPlan): every fourth plan is a long one
PlanSize(sp) == IF sp.id % 4 = 0 THEN LargePlanSize ELSE SmallPlanSize

\* the intake records kept as the last intake
LastIntakes == {"intake A", "intake B"}

\* the settings objects handed to saveSettings
SettingsPatches ==
    { [keepHistory |-> FALSE], [keepHistory |-> TRUE], [maxHistoryItems |-> -1] }

RECURSIVE PlansSize(_)
PlansSize(plans) ==
    IF plans = <<>> THEN 0 ELSE PlanSize(Head(plans)) + PlansSize(Tail(plans))

\* the space taken by the items
SizeOf(ls) ==
    (IF ls.current = <<>> THEN 0 ELSE PlanSize(ls.current[1]))
    + (IF ls.plans = <<>> THEN 0 ELSE EmptyArraySize + PlansSize(ls.plans[1]))
    + Len(ls.lastIntake) * IntakeSize
    + Len(ls.settings) * SettingsSize

\* localStorage.setItem leaves ls behind without a QuotaExceededError
Fits(ls) == storageEnv.available /\ SizeOf(ls) <= storageEnv.quota

\* isStorageAvailable(): the test item is written next to the items of ls
\* and removed again
isStorageAvailable(ls) ==
    storageEnv.available /\ SizeOf(ls) + TestSize <= storageEnv.quota

\* the ids of the plans in the items, whether they can be read or not
StoredIds(ls) ==
    { ls.current[i].id : i \in 1..Len(ls.current) }
    \cup (IF ls.plans = <<>> THEN {}
          ELSE { ls.plans[1][i].id : i \in 1..Len(ls.plans[1]) })

\* getCurrentPlan(): <<>> is null
getCurrentPlan(ls) == IF ~isStorageAvailable(ls) THEN <<>> ELSE ls.current

getAllPlans(ls) ==
    IF ~isStorageAvailable(ls) \/ ls.plans = <<>> THEN <<>> ELSE ls.plans[1]

getLastIntake(ls) == IF ~isStorageAvailable(ls) THEN <<>> ELSE ls.lastIntake

\* { ...DEFAULT_SETTINGS, ...JSON.parse(stored) }
getSettings(ls) ==
    IF ~isStorageAvailable(ls) \/ ls.settings = <<>> THEN DEFAULT_SETTINGS
    ELSE [k \in DOMAIN DEFAULT_SETTINGS |->
            IF k \in DOMAIN ls.settings[1] THEN ls.settings[1][k] ELSE DEFAULT_SETTINGS[k]]

\* Array.prototype.filter((p) => p.id !== id)
RECURSIVE FilterOut(_, _)
FilterOut(plans, id) ==
    IF plans = <<>> THEN <<>>
    ELSE IF Head(plans).id = id THEN FilterOut(Tail(plans), id)
    ELSE <<Head(plans)>> \o FilterOut(Tail(plans), id)

\* the value a storage function returns and the items it leaves behind;
\* ret 0 is null
Outcome(ret, ls) == [ret |-> ret, store |-> ls]

\* savePlan(plan, intake) with generatePlanId() = id: the current plan is
\* written first; getSettings and getAllPlans test the storage again, with
\* the new current plan in it
savePlan(ls, id) ==
    IF ~isStorageAvailable(ls) THEN Outcome(0, ls)
    ELSE LET sp == StoredPlan(id)
             s1 == [ls EXCEPT !.current = <<sp>>]
             trimmed == SliceFirst(<<sp>> \o getAllPlans(s1), getSettings(s1).maxHistoryItems)
             s2 == [s1 EXCEPT !.plans = <<trimmed>>]
         IN  IF ~Fits(s1) THEN Outcome(0, ls)
             ELSE IF getSettings(s1).keepHistory
             THEN IF Fits(s2) THEN Outcome(id, s2) ELSE Outcome(0, s1)
             ELSE Outcome(id, s1)

\* deletePlan(id): the filtered history is written first; getCurrentPlan
\* tests the storage again, with the new history in it
deletePlan(ls, id) ==
    IF ~isStorageAvailable(ls) THEN Outcome(FALSE, ls)
    ELSE LET s1 == [ls EXCEPT !.plans = <<FilterOut(getAllPlans(ls), id)>>]
         IN  IF ~Fits(s1) THEN Outcome(FALSE, ls)
             ELSE IF getCurrentPlan(s1) # <<>> /\ getCurrentPlan(s1)[1].id = id
             THEN Outcome(TRUE, [s1 EXCEPT !.current = <<>>])
             ELSE Outcome(TRUE, s1)

\* clearAllPlans()
clearAllPlans(ls) ==
    IF ~isStorageAvailable(ls) THEN Outcome(FALSE, ls)
    ELSE Outcome(TRUE, [ls EXCEPT !.plans = <<>>, !.current = <<>>])

\* saveLastIntake(intake)
saveLastIntake(ls, intake) ==
    IF ~isStorageAvailable(ls) THEN Outcome(FALSE, ls)
    ELSE LET s1 == [ls EXCEPT !.lastIntake = <<intake>>]
         IN  IF Fits(s1) THEN Outcome(TRUE, s1) ELSE Outcome(FALSE, ls)

\* clearLastIntake()
clearLastIntake(ls) ==
    IF ~isStorageAvailable(ls) THEN Outcome(FALSE, ls)
    ELSE Outcome(TRUE, [ls EXCEPT !.lastIntake = <<>>])

\* saveSettings(settings)
saveSettings(ls, settings) ==
    IF ~isStorageAvailable(ls) THEN Outcome(FALSE, ls)
    ELSE LET s1 == [ls EXCEPT !.settings =
                      <<[k \in DOMAIN DEFAULT_SETTINGS |->
                           IF k \in DOMAIN settings THEN settings[k]
                           ELSE getSettings(ls)[k]]>>]
         IN  IF Fits(s1) THEN Outcome(TRUE, s1) ELSE Outcome(FALSE, ls)

\* exportAllData(), without exportedAt; <<>> is null
exportAllData(ls) ==
    [plans |-> getAllPlans(ls),
     currentPlan |-> getCurrentPlan(ls),
     lastIntake |-> getLastIntake(ls),
     settings |-> getSettings(ls)]

\* importData(data): each member that is truthy is written (an empty array
\* is truthy, null is not), one after the other up to the first write that
\* fails
importData(ls, data) ==
    IF ~isStorageAvailable(ls) THEN Outcome(FALSE, ls)
    ELSE LET s1 == [ls EXCEPT !.plans = <<data.plans>>]
             s2 == IF data.currentPlan # <<>>
                   THEN [s1 EXCEPT !.current = data.currentPlan] ELSE s1
             s3 == IF data.lastIntake # <<>>
                   THEN [s2 EXCEPT !.lastIntake = data.lastIntake] ELSE s2
             s4 == [s3 EXCEPT !.settings = <<data.settings>>]
         IN  IF ~Fits(s1) THEN Outcome(FALSE, ls)
             ELSE IF ~Fits(s2) THEN Outcome(FALSE, s1)
             ELSE IF ~Fits(s3) THEN Outcome(FALSE, s2)
             ELSE IF ~Fits(s4) THEN Outcome(FALSE, s3)
             ELSE Outcome(TRUE, s4)

\* no operation yet
NoOp == [op |-> "none", ret |-> 0, arg |-> 0, before |-> EmptyStore]

\* the record of an operation: its name, argument, return value and the
\* items before it
Op(op, arg, ret, before) == [op |-> op, ret |-> ret, arg |-> arg, before |-> before]

NoBackup == [taken |-> FALSE, data |-> exportAllData(EmptyStore)]

\* HomePage before it is mounted
NoPage == [state |-> "unmounted", generatedPlan |-> <<>>, effectRan |-> FALSE, requests |-> 0]

\* an empty localStorage with room for everything, no page
InitNoStore ==
    /\ store = EmptyStore
    /\ storageEnv = [available |-> TRUE, quota |-> LargeQuota]
    /\ nextId = 1
    /\ lastOp = NoOp
    /\ backup = NoBackup
    /\ page = NoPage

\* savePlan(plan, intake)
SavePlan ==
    /\ nextId <= MaxSaves
    /\ store' = savePlan(store, nextId).store
    /\ lastOp' = Op("savePlan", nextId, savePlan(store, nextId).ret, store)
    /\ nextId' = nextId + 1
    /\ UNCHANGED <<storageEnv, backup, page>>
    /\ UNCHANGED <<retryVars, aprvVars, routeVars, probe>>

\* deletePlan(id), for the id of a plan that was saved
DeletePlan ==
    /\ \E id \in 1..(nextId - 1) :
         /\ id \in StoredIds(store)
         /\ store' = deletePlan(store, id).store
         /\ lastOp' = Op("deletePlan", id, deletePlan(store, id).ret, store)
    /\ UNCHANGED <<storageEnv, nextId, backup, page>>
    /\ UNCHANGED <<retryVars, aprvVars, routeVars, probe>>

\* clearAllPlans()
ClearAllPlans ==
    /\ (store.plans # <<>> \/ store.current # <<>>)
    /\ store' = clearAllPlans(store).store
    /\ lastOp' = Op("clearAllPlans", 0, clearAllPlans(store).ret, store)
    /\ UNCHANGED <<storageEnv, nextId, backup, page>>
    /\ UNCHANGED <<retryVars, aprvVars, routeVars, probe>>

\* saveLastIntake(intake)
SaveLastIntake ==
    /\ \E intake \in LastIntakes :
         /\ store' = saveLastIntake(store, intake).store
         /\ lastOp' = Op("saveLastIntake", 0, saveLastIntake(store, intake).ret, store)
    /\ UNCHANGED <<storageEnv, nextId, backup, page>>
    /\ UNCHANGED <<retryVars, aprvVars, routeVars, probe>>

\* clearLastIntake()
ClearLastIntake ==
    /\ store.lastIntake # <<>>
    /\ store' = clearLastIntake(store).store
    /\ lastOp' = Op("clearLastIntake", 0, clearLastIntake(store).ret, store)
    /\ UNCHANGED <<storageEnv, nextId, backup, page>>
    /\ UNCHANGED <<retryVars, aprvVars, routeVars, probe>>

\* saveSettings(settings)
SaveSettings ==
    /\ \E settings \in SettingsPatches :
         /\ store' = saveSettings(store, settings).store
         /\ lastOp' = Op("saveSettings", 0, saveSettings(store, settings).ret, store)
    /\ UNCHANGED <<storageEnv, nextId, backup, page>>
    /\ UNCHANGED <<retryVars, aprvVars, routeVars, probe>>

\* exportAllData(): the caller keeps the value
ExportAllData ==
    /\ backup' = [taken |-> TRUE, data |-> exportAllData(store)]
    /\ lastOp' = Op("exportAllData", 0, 0, store)
    /\ UNCHANGED <<store, storageEnv, nextId, page>>
    /\ UNCHANGED <<retryVars, aprvVars, routeVars, probe>>

\* importData(data) on a value that exportAllData returned
ImportData ==
    /\ backup.taken
    /\ store' = importData(store, backup.data).store
    /\ lastOp' = Op("importData", 0, importData(store, backup.data).ret, store)
    /\ UNCHANGED <<storageEnv, nextId, backup, page>>
    /\ UNCHANGED <<retryVars, aprvVars, routeVars, probe>>

\* the page is loaded or reloaded: HomePage is rendered for the first time
\* with the initial values of useState, its mount effect queued; the
\* requests of the page it replaces are dropped with that page.  arg records
\* whether the load follows a confirmed reset.
LoadPage ==
    /\ page' = [state |-> "intake", generatedPlan |-> <<>>, effectRan |-> FALSE,
                requests |-> 0]
    /\ lastOp' = Op("load", IF lastOp.op = "handleReset" THEN 1 ELSE 0, 0, store)
    /\ UNCHANGED <<store, storageEnv, nextId, backup>>
    /\ UNCHANGED <<retryVars, aprvVars, routeVars, probe>>

\* the effect of the mount, run once after the first render, before or
\* after a submit of the form that this render shows: a current plan that
\* getCurrentPlan returns is shown, whatever the state is by then
MountEffect ==
    /\ page.state # "unmounted"
    /\ ~page.effectRan
    /\ page' = IF getCurrentPlan(store) # <<>>
               THEN [page EXCEPT !.state = "results",
                                 !.generatedPlan = <<getCurrentPlan(store)[1].id>>,
                                 !.effectRan = TRUE]
               ELSE [page EXCEPT !.effectRan = TRUE]
    /\ lastOp' = Op("mountEffect", 0, 0, store)
    /\ UNCHANGED <<store, storageEnv, nextId, backup>>
    /\ UNCHANGED <<retryVars, aprvVars, routeVars, probe>>

\* handleSubmit up to the fetch, called by the form that the intake state
\* shows: the generating state, a request sent
HandleSubmit ==
    /\ page.state = "intake"
    /\ page.requests < MaxRequests
    /\ nextId + page.requests <= MaxSaves
    /\ page' = [page EXCEPT !.state = "generating", !.requests = @ + 1]
    /\ lastOp' = Op("handleSubmit", 0, 0, store)
    /\ UNCHANGED <<store, storageEnv, nextId, backup>>
    /\ UNCHANGED <<retryVars, aprvVars, routeVars, probe>>

\* handleSubmit, the response to a request carries a plan: savePlan, the
\* results state, clearLastIntake, whatever the state is by then
SubmitSucceeds ==
    /\ page.requests > 0
    /\ store' = clearLastIntake(savePlan(store, nextId).store).store
    /\ page' = [page EXCEPT !.state = "results", !.generatedPlan = <<nextId>>,
                            !.requests = @ - 1]
    /\ lastOp' = Op("submitSucceeded", nextId, savePlan(store, nextId).ret, store)
    /\ nextId' = nextId + 1
    /\ UNCHANGED <<storageEnv, backup>>
    /\ UNCHANGED <<retryVars, aprvVars, routeVars, probe>>

\* handleSubmit, a request failed: the error state, generatedPlan as it is
SubmitFails ==
    /\ page.requests > 0
    /\ page' = [page EXCEPT !.state = "error", !.requests = @ - 1]
    /\ lastOp' = Op("submitFailed", 0, 0, store)
    /\ UNCHANGED <<store, storageEnv, nextId, backup>>
    /\ UNCHANGED <<retryVars, aprvVars, routeVars, probe>>

\* handleReset with the confirmation accepted (Start Over, Try Again)
HandleReset ==
    /\ page.state \in {"results", "error"}
    /\ page' = [page EXCEPT !.state = "intake", !.generatedPlan = <<>>]
    /\ lastOp' = Op("handleReset", 0, 0, store)
    /\ UNCHANGED <<store, storageEnv, nextId, backup>>
    /\ UNCHANGED <<retryVars, aprvVars, routeVars, probe>>

\* the history functions of storage.ts
NextStore ==
    \/ SavePlan
    \/ DeletePlan
    \/ ClearAllPlans

\* backup and restore, between the other storage functions
NextBackup ==
    \/ SavePlan
    \/ ClearAllPlans
    \/ SaveLastIntake
    \/ ClearLastIntake
    \/ SaveSettings
    \/ ExportAllData
    \/ ImportData

\* the page, loaded and reloaded
NextPage ==
    \/ LoadPage
    \/ MountEffect
    \/ HandleSubmit
    \/ SubmitSucceeds
    \/ SubmitFails
    \/ HandleReset

(***************************************************************************)
(* Specifications                                                          *)
(***************************************************************************)

NoProbe == [fn |-> "none", applied |-> FALSE]

\* no function is under test
InitNoProbe == probe = NoProbe

\* longest response text, in tokens, handed to extractJSON
MaxTextLen == 6

TextAlphabet == {"w", "{", "}", "m", "<fence>", "<fence>json"}

\* the texts handed to extractJSON
ProbeTexts ==
    { Text(t, GoodPlan) : t \in SeqsUpTo(TextAlphabet, MaxTextLen) }
    \cup { Text(<<"5">>, NoPlan), Text(<<"null">>, NoPlan) }

\* extractJSON(text) on the probe's text
ApplyExtractJSON ==
    /\ probe.fn = "none"
    /\ probe' = [probe EXCEPT !.fn = "extractJSON", !.applied = TRUE,
                              !.out = extractJSON(probe.arg)]
    /\ UNCHANGED <<retryVars, aprvVars, routeVars, storeVars>>

NextExtract == ApplyExtractJSON

\* validateAgainstSchema(plan, schema) on the probe's plan
ApplyValidateAgainstSchema ==
    /\ probe.fn = "none"
    /\ probe' = [probe EXCEPT !.fn = "validateAgainstSchema", !.applied = TRUE,
                              !.out = validateAgainstSchema(probe.arg, SchemaRequired)]
    /\ UNCHANGED <<retryVars, aprvVars, routeVars, storeVars>>

\* validatePlan(plan) on the probe's plan
ApplyValidatePlan ==
    /\ probe.fn = "none"
    /\ probe' = [probe EXCEPT !.fn = "validatePlan", !.applied = TRUE,
                              !.out = validatePlan(probe.arg)]
    /\ UNCHANGED <<retryVars, aprvVars, routeVars, storeVars>>

\* the errors handed to buildUserPrompt as previousError: none, or the error
\* of a failed Verify
PreviousErrors ==
    { NoError,
      Err(<<"Schema", " validation errors: ">> \o <<"units", ": ", "Missing required field: units">>,
          "validation", 1) }

\* buildUserPrompt(intake, previousError) on the probe's arguments
ApplyBuildUserPrompt ==
    /\ probe.fn = "none"
    /\ probe' = [probe EXCEPT !.fn = "buildUserPrompt", !.applied = TRUE,
                              !.out = buildUserPrompt(probe.arg.intake,
                                                      probe.arg.previousError)]
    /\ UNCHANGED <<retryVars, aprvVars, routeVars, storeVars>>

NextPrompt == ApplyBuildUserPrompt

NextValidate ==
    \/ ApplyValidateAgainstSchema
    \/ ApplyValidatePlan

\* a client of any configured maxRetries, no orchestration running
InitClient == InitRetry /\ InitAPRV /\ InitNoRequest /\ InitNoStore /\ InitNoProbe

\* a client about to be constructed
InitConstructor == InitNew /\ InitAPRV /\ InitNoRequest /\ InitNoStore /\ InitNoProbe

\* the constructor, then the retry loop of one call
SpecClient == InitConstructor /\ [][NextClient]_vars

\* the retry loop of one ClaudeClient call
SpecRetry == InitClient /\ [][NextRetry]_vars

\* the default client, idle, and a fresh orchestration context
InitOrchestrator ==
    /\ InitRetry
    /\ retryConfig = DEFAULT_RETRY_CONFIG
    /\ apiKey = DefaultEnv.ANTHROPIC_API_KEY
    /\ InitAPRV
    /\ InitNoRequest
    /\ InitNoStore
    /\ InitNoProbe

\* a plan about to be validated
InitValidate ==
    /\ InitRetry
    /\ retryConfig = DEFAULT_RETRY_CONFIG
    /\ apiKey = DefaultEnv.ANTHROPIC_API_KEY
    /\ InitAPRV
    /\ InitNoRequest
    /\ InitNoStore
    /\ probe \in { [fn |-> "none", applied |-> FALSE, arg |-> p, out |-> <<>>] : p \in PlanSpace }

\* the two validators as functions of the plan
SpecValidate == InitValidate /\ [][NextValidate]_vars

\* a response text about to be searched for JSON
InitExtract ==
    /\ InitRetry
    /\ retryConfig = DEFAULT_RETRY_CONFIG
    /\ apiKey = DefaultEnv.ANTHROPIC_API_KEY
    /\ InitAPRV
    /\ InitNoRequest
    /\ InitNoStore
    /\ probe \in { [fn |-> "none", applied |-> FALSE, arg |-> x, out |-> <<>>] : x \in ProbeTexts }

\* extractJSON as a function of the text
SpecExtract == InitExtract /\ [][NextExtract]_vars

\* an intake record about to be turned into a prompt
InitPrompt ==
    /\ InitRetry
    /\ retryConfig = DEFAULT_RETRY_CONFIG
    /\ apiKey = DefaultEnv.ANTHROPIC_API_KEY
    /\ InitAPRV
    /\ InitNoRequest
    /\ InitNoStore
    /\ probe \in { [fn |-> "none", applied |-> FALSE,
                    arg |-> [intake |-> i, previousError |-> e], out |-> <<>>] :
                     i \in Intakes, e \in PreviousErrors }

\* buildUserPrompt as a function of the intake record and the prior error
SpecPrompt == InitPrompt /\ [][NextPrompt]_vars

\* a browser, its localStorage empty; storage may be unusable or nearly full
InitStore ==
    /\ InitRetry
    /\ retryConfig = DEFAULT_RETRY_CONFIG
    /\ apiKey = DefaultEnv.ANTHROPIC_API_KEY
    /\ InitAPRV
    /\ InitNoRequest
    /\ InitNoProbe
    /\ store = EmptyStore
    /\ storageEnv \in { [available |-> a, quota |-> q] :
                          a \in BOOLEAN,
                          q \in {TinyQuota, SmallQuota, TightQuota, LargeQuota} }
    /\ nextId = 1
    /\ lastOp = NoOp
    /\ backup = NoBackup
    /\ page = NoPage

\* savePlan, deletePlan and clearAllPlans in any order
SpecStore == InitStore /\ [][NextStore]_vars

\* a browser after MaxSaves - 2 plans were saved and all but the last
\* deleted or cleared
InitBackup ==
    /\ InitRetry
    /\ retryConfig = DEFAULT_RETRY_CONFIG
    /\ apiKey = DefaultEnv.ANTHROPIC_API_KEY
    /\ InitAPRV
    /\ InitNoRequest
    /\ InitNoProbe
    /\ store \in { EmptyStore,
                   [EmptyStore EXCEPT !.plans = << <<StoredPlan(MaxSaves - 2)>> >>,
                                      !.current = <<StoredPlan(MaxSaves - 2)>>] }
    /\ storageEnv \in { [available |-> TRUE, quota |-> q] :
                          q \in {TinyQuota, SmallQuota, LargeQuota} }
    /\ SizeOf(store) <= storageEnv.quota
    /\ nextId = MaxSaves - 1
    /\ lastOp = NoOp
    /\ backup = NoBackup
    /\ page = NoPage

\* exportAllData and importData between other storage calls
SpecBackup == InitBackup /\ [][NextBackup]_vars

\* a browser that opens the page for the first time
InitPage ==
    /\ InitRetry
    /\ retryConfig = DEFAULT_RETRY_CONFIG
    /\ apiKey = DefaultEnv.ANTHROPIC_API_KEY
    /\ InitAPRV
    /\ InitNoRequest
    /\ InitNoProbe
    /\ store \in { EmptyStore, [EmptyStore EXCEPT !.lastIntake = <<"intake A">>] }
    /\ storageEnv \in { [available |-> a, quota |-> q] :
                          a \in BOOLEAN, q \in {TinyQuota, SmallQuota, LargeQuota} }
    /\ nextId = 1
    /\ lastOp = NoOp
    /\ backup = NoBackup
    /\ page = NoPage

\* HomePage over page loads, submissions and resets
SpecPage == InitPage /\ [][NextPage]_vars

\* a POST request arrives at a deployment
InitRoute ==
    /\ InitRetry
    /\ retryConfig = DEFAULT_RETRY_CONFIG
    /\ apiKey = DefaultEnv.ANTHROPIC_API_KEY
    /\ pc = "idle"
    /\ attempt = 0
    /\ context = NewContext(MinimalIntake)
    /\ lastError = NoError
    /\ lastPlan = NoPlan
    /\ planResult = NoPlan
    /\ result = NoResult
    /\ calls = <<>>
    /\ env \in Envs
    /\ routePc = "received"
    /\ request \in Requests
    /\ response = NoResponse
    /\ InitNoStore
    /\ InitNoProbe

\* one POST /api/generate request, generateWithAPRV included
SpecRoute == InitRoute /\ [][NextRoute]_vars

\* one run of generateWithAPRV
SpecAPRV == InitOrchestrator /\ [][NextAPRV]_vars

\* one run of generateWithAPRV in which every awaited call (the file read,
\* the generation stream, the reflection call) eventually returns or throws
SpecAPRVLive == InitOrchestrator /\ [][NextAPRV]_vars /\ WF_vars(NextAPRV)

(***************************************************************************)
(* Claims about executeWithRetry (checked under SpecRetry)                 *)
(***************************************************************************)

\* an API error with HTTP status 408, 429 or 5xx
Transient(error) ==
    /\ error.api
    /\ \/ error.status \in {408, 429}
       \/ error.status \in 500..599

\* C1: when every call of the operation fails with a retryable status, a
\* client configured with maxRetries = N calls the operation exactly N + 1
\* times, sleeps exactly N times (one sleep between consecutive calls, none
\* after the last call) and then throws a ClaudeAPIError; it never makes
\* more than N + 1 calls.
C1_RetryBound ==
    /\ NumCalls <= retryConfig.maxRetries + 1
    /\ (rPc = "thrown" /\ Transient(rLastError)) =>
        /\ NumCalls = retryConfig.maxRetries + 1
        /\ NumSleeps = retryConfig.maxRetries
        /\ Len(rTrace) = 2 * retryConfig.maxRetries + 1
        /\ \A i \in 1..Len(rTrace) :
            rTrace[i].ev = (IF i % 2 = 1 THEN "call" ELSE "sleep")
        /\ rOutcome.name = "ClaudeAPIError"

\* the default client after four calls that all answered 503
C1_Witness ==
    /\ rPc = "thrown"
    /\ retryConfig.maxRetries = 3
    /\ rLastError = [api |-> TRUE, status |-> 503]
    /\ NumCalls = 4
    /\ NumSleeps = 3

\* C2: a failed call is followed by a backoff sleep and another call only if
\* the error is an API error with status 408, 429 or 5xx (and then always,
\* while retries remain); after any other error there is no sleep and no
\* further call: a ClaudeAPIError is thrown at once, whatever number of
\* retries remains.
C2_RetryClassification ==
    [][ /\ (rPc = "calling" /\ rPc' \notin {"calling", "returned"}) =>
            IF Transient(rLastError')
            THEN IF rAttempt < retryConfig.maxRetries
                 THEN /\ rPc' = "sleeping"
                      /\ Len(rTrace') = Len(rTrace) + 1
                      /\ rTrace'[Len(rTrace')].ev = "sleep"
                 ELSE /\ rPc' = "thrown"
                      /\ rTrace' = rTrace
            ELSE /\ rPc' = "thrown"
                 /\ rTrace' = rTrace
                 /\ rOutcome'.name = "ClaudeAPIError"
        /\ (rPc = "sleeping" /\ rPc' # "sleeping") =>
            /\ rPc' = "calling"
            /\ rTrace' = Append(rTrace, CallEv)
      ]_vars

\* a 401 on the second call of the default client: thrown with two retries left
C2_Witness ==
    /\ rPc = "thrown"
    /\ retryConfig.maxRetries = 3
    /\ rLastError = [api |-> TRUE, status |-> 401]
    /\ NumCalls = 2
    /\ NumSleeps = 1

(***************************************************************************)
(* Claims about generateWithAPRV (checked under SpecAPRV)                  *)
(***************************************************************************)

\* the attempt budget: one initial attempt and MAX_REPAIR_ATTEMPTS repairs
Budget == MAX_REPAIR_ATTEMPTS + 1

\* positions of the history holding an event of one kind
Indices(ev) == {i \in 1..Len(calls) : calls[i].ev = ev}

NumGenerate == Cardinality(Indices("generate"))

\* 'plan'-phase entries of the returned log
PlanLogEntries ==
    Cardinality({i \in 1..Len(result.phase_logs) : result.phase_logs[i].phase = "plan"})

\* the candidate satisfies the schema check
Conforms(plan) == validateAgainstSchema(plan, SchemaRequired).valid

\* the result carries an issue list: as validation_errors, or with every
\* issue's path named in the error text
CarriesIssues(res, issues) ==
    \/ (Len(issues) > 0 /\ res.validation_errors = issues)
    \/ \A k \in 1..Len(issues) : Includes(res.error, issues[k].path)

\* C3: when the loop is entered, every Generate phase yields a candidate and
\* the schema check reports an issue on every candidate, a run performs
\* exactly 3 Generate phases and ends in Fail carrying the issue list of the
\* last attempt.
C3_FailCarriesLastIssues ==
    ( /\ result.returned
      /\ NumGenerate >= 1
      /\ Cardinality(Indices("candidate")) = NumGenerate
      /\ \A i \in Indices("candidate") : ~Conforms(calls[i].plan) )
    => /\ NumGenerate = Budget
       /\ ~result.success
       /\ \E k \in Indices("verify") :
            /\ calls[k].att = Budget
            /\ CarriesIssues(result, calls[k].issues)

\* the first candidate fails the schema check and the second passes it
FirstFailsSecondPasses ==
    \E i, j \in Indices("candidate") :
        /\ calls[i].att = 1 /\ ~Conforms(calls[i].plan)
        /\ calls[j].att = 2 /\ Conforms(calls[j].plan)

\* C4: when the first output fails schema validation and the second passes
\* it, then whatever Reflect does the run reports Success with attempts = 2
\* after exactly 2 Generate phases, and the log has exactly 2 'plan' entries.
C4_SuccessAfterTwoGenerates ==
    (result.returned /\ FirstFailsSecondPasses)
    => /\ result.success
       /\ result.attempts = 2
       /\ NumGenerate = 2
       /\ PlanLogEntries = 2

\* C5: a run in which some attempt produced a schema-conforming candidate
\* ends in Success, whatever the reflection answers are.
C5_ReflectDoesNotGate ==
    (result.returned /\ \E i \in Indices("candidate") : Conforms(calls[i].plan))
    => result.success

\* C6: every candidate a Generate phase produced is verified before the next
\* Generate phase starts and before the run ends.
C6_GenerateVerifyAlternate ==
    \A i \in Indices("candidate") :
        /\ \A j \in Indices("generate") :
            j > i => \E k \in (i + 1)..(j - 1) :
                        calls[k].ev = "verify" /\ calls[k].plan = calls[i].plan
        /\ result.returned =>
            \E k \in (i + 1)..Len(calls) :
                calls[k].ev = "verify" /\ calls[k].plan = calls[i].plan

\* C7: when the reflection call throws, reflectPhase reports no issues, the
\* same attempt goes on to Verify on the same candidate without consuming an
\* attempt, and no run ends in Fail with that exception.
C7_ReflectFailureSwallowed ==
    /\ \A i \in Indices("reflectThrew") :
        /\ calls[i].ok
        /\ IF i = Len(calls)
           THEN /\ pc = "verify"
                /\ planResult = calls[i].plan
                /\ context.attempts = calls[i].att
                /\ lastError.src # "reflect"
                /\ ~result.returned
           ELSE /\ calls[i + 1].ev = "verify"
                /\ calls[i + 1].att = calls[i].att
                /\ calls[i + 1].plan = calls[i].plan
    /\ \A i \in Indices("fatal") : calls[i].err.src # "reflect"
    /\ \A i \in Indices("generate") : calls[i].err.src # "reflect"

\* a run whose reflection call threw on the first attempt and that succeeded
\* in that same attempt
C7_Witness ==
    /\ result.returned /\ result.success /\ result.attempts = 1
    /\ \E i \in Indices("reflectThrew") : calls[i].att = 1

\* the error that ended the attempt whose last event is p
ErrorOfAttempt(p, e) ==
    CASE p.ev = "generateFailed" -> e = p.err
      [] p.ev = "reflect" ->
            /\ ~p.ok
            /\ e.src = "reflection" /\ e.att = p.att
            /\ e.message = <<"Reflection ", "issue", "s: ">> \o p.text
      [] p.ev = "verify" ->
            /\ ~p.ok
            /\ e.src = "validation" /\ e.att = p.att
            /\ e.message = <<"Schema", " validation errors: ">> \o formatValidationErrors(p.issues)
      [] OTHER -> FALSE

RepairHeader == "PREVIOUS GENERATION FAILED - PLEASE FIX:"

\* C8: the first Generate phase is built with no prior error; every later
\* one is built with the error that the immediately preceding attempt
\* produced (its validation error, its reflection issues or its exception),
\* and that error's message is in the prompt.
C8_PriorErrorIsLatest ==
    \A j \in Indices("generate") :
        IF calls[j].att = 1
        THEN /\ calls[j].err = NoError
             /\ ~Includes(calls[j].text, RepairHeader)
        ELSE /\ calls[j].err # NoError
             /\ calls[j].err.att = calls[j].att - 1
             /\ calls[j - 1].att = calls[j].att - 1
             /\ ErrorOfAttempt(calls[j - 1], calls[j].err)
             /\ Includes(calls[j].text, RepairHeader)
             /\ \A k \in 1..Len(calls[j].err.message) :
                    Includes(calls[j].text, calls[j].err.message[k])

\* the third Generate phase is built with the validation error of attempt 2,
\* after attempt 1 had ended with a different error (a failed generation)
C8_Witness ==
    \E j \in Indices("generate"), i \in Indices("generateFailed") :
        /\ calls[j].att = 3 /\ calls[j].err.src = "validation"
        /\ calls[i].att = 1

\* C9: a Generate phase that fails on attempt i runs neither Reflect nor
\* Verify in that attempt and consumes exactly one attempt: for i < 3 the
\* next event is the Generate phase of attempt i + 1, for i = 3 the run
\* ends in Fail with that error.
C9_GenerateFailureConsumesAttempt ==
    \A j \in Indices("generateFailed") :
        LET i == calls[j].att IN
        /\ calls[j - 1].ev = "generate" /\ calls[j - 1].att = i
        /\ \A k \in 1..Len(calls) :
            calls[k].att = i => calls[k].ev \in {"generate", "generateFailed", "fatal"}
        /\ Len(calls) > j
        /\ IF i < Budget
           THEN calls[j + 1].ev = "generate" /\ calls[j + 1].att = i + 1
           ELSE /\ calls[j + 1].ev = "fatal" /\ calls[j + 1].err = calls[j].err
                /\ Len(calls) = j + 1
                /\ result.returned /\ ~result.success
                /\ result.attempts = Budget
                /\ result.error = formatUserError(calls[j].err)

\* generation failed on attempt 1 and again on attempt 3, which ended the run
C9_Witness ==
    /\ result.returned
    /\ \E j, k \in Indices("generateFailed") : calls[j].att = 1 /\ calls[k].att = 3

\* C10: the result has a plan exactly when success is true, and a returned
\* plan is the candidate of the last executed attempt, on which the schema
\* check of that same attempt reported valid.
C10_NoPartialPlan ==
    result.returned =>
        /\ result.hasPlan <=> result.success
        /\ ~result.success => result.plan = NoPlan
        /\ result.success =>
            /\ result.plan # NoPlan
            /\ \E c \in Indices("candidate"), v \in Indices("verify") :
                /\ calls[c].att = result.attempts /\ calls[c].plan = result.plan
                /\ calls[v].att = result.attempts /\ calls[v].plan = result.plan
                /\ calls[v].ok
                /\ v = Len(calls)
            /\ \A k \in 1..Len(calls) : calls[k].att <= result.attempts

\* Success on the third attempt, after two repairs
C10_Witness ==
    /\ result.returned /\ result.success
    /\ result.attempts = 3

(***************************************************************************)
(* Claims about the phase log (checked under SpecAPRV)                     *)
(***************************************************************************)

\* s is an initial segment of t
IsPrefix(s, t) == Len(s) <= Len(t) /\ SubSeq(t, 1, Len(s)) = s

\* the log entries that successful Generate phases wrote
LoggedPhases(logs, phase) == {i \in 1..Len(logs) : logs[i].phase = phase}

\* C11: during a run the phase log is append-only: every step leaves the
\* entries written so far in place, unmodified and in order, and only adds
\* entries at the end; and the result that generateWithAPRV returns, on
\* Success and on Fail alike, holds every entry appended during the run.
C11_LogAppendOnly ==
    /\ [][IsPrefix(context.logs, context'.logs)]_vars
    /\ [](result.returned =>
            /\ result.phase_logs = context.logs
            /\ Len(result.phase_logs) >= Len(calls) - 1
            /\ Cardinality(LoggedPhases(result.phase_logs, "verify"))
                   >= Cardinality(Indices("verify")))

\* a Fail after three attempts, returned with the whole log of the run
C11_Witness ==
    /\ result.returned
    /\ ~result.success
    /\ result.attempts = 3
    /\ Len(result.phase_logs) >= 10
    /\ Cardinality(Indices("verify")) = 3

(***************************************************************************)
(* Claims about the ClaudeClient constructor (checked under SpecClient)    *)
(***************************************************************************)

\* an API key of valid form: present, starting with "sk-", not a placeholder
WellFormedKey(key) ==
    /\ Len(key) > 0
    /\ StartsWith(key, "sk-")
    /\ key \notin { <<"your-key-here">>, <<"your_api_key_here">> }

\* C14: constructing a ClaudeClient with an absent or malformed API key
\* (empty, a placeholder, or a string of invalid format such as
\* 'invalid-key-format') throws a ClaudeAPIError in the constructor, so the
\* client never gets to call the API.
C14_MalformedKeyRejected ==
    (rPc # "new" /\ ~WellFormedKey(apiKey)) =>
        /\ rPc = "ctorThrown"
        /\ rOutcome.name = "ClaudeAPIError"
        /\ NumCalls = 0

(***************************************************************************)
(* Claims about the backoff delays (checked under SpecRetry)               *)
(***************************************************************************)

\* b_k = min(maxDelay, initialDelay * backoffMultiplier^k), as the fraction
\* n / d
BaseDelay(cfg, k) ==
    LET raw == cfg.initialDelay * Pow(cfg.backoffMultiplier.num, k)
        den == Pow(cfg.backoffMultiplier.den, k)
    IN  IF raw > cfg.maxDelay * den
        THEN [n |-> cfg.maxDelay, d |-> 1]
        ELSE [n |-> raw, d |-> den]

\* the positions of the sleeps in the trace, and the retry a sleep precedes
SleepIndices == {i \in 1..Len(rTrace) : rTrace[i].ev = "sleep"}
RetryOfSleep(i) == Cardinality({j \in SleepIndices : j < i})

\* ms lies in [0.8 * b, 1.2 * b]
WithinJitter(ms, b) == 5 * ms * b.d >= 4 * b.n /\ 5 * ms * b.d <= 6 * b.n

\* ms is a value of [0.8 * b, 1.2 * b] rounded down to whole milliseconds
WithinJitterFloored(ms, b) == 5 * (ms + 1) * b.d > 4 * b.n /\ 5 * ms * b.d <= 6 * b.n

\* the client has the default delays (any maxRetries)
HasDefaultDelays ==
    retryConfig = [DEFAULT_RETRY_CONFIG EXCEPT !.maxRetries = retryConfig.maxRetries]

\* with the defaults the bases are 1000, 2000 and 4000 ms: the first three
\* sleeps of a client with the default delays lie within a fifth of them;
\* and the bases never decrease with k
DefaultBases ==
    /\ HasDefaultDelays =>
         \A i \in SleepIndices :
             /\ RetryOfSleep(i) = 0 => rTrace[i].ms \in 800..1200
             /\ RetryOfSleep(i) = 1 => rTrace[i].ms \in 1600..2400
             /\ RetryOfSleep(i) = 2 => rTrace[i].ms \in 3200..4800
    /\ \A k \in 0..MaxRetriesBound :
         BaseDelay(DEFAULT_RETRY_CONFIG, k).n * BaseDelay(DEFAULT_RETRY_CONFIG, k + 1).d
             <= BaseDelay(DEFAULT_RETRY_CONFIG, k + 1).n * BaseDelay(DEFAULT_RETRY_CONFIG, k).d

\* C15 as stated: the sleep before retry k is b_k plus a jitter of at most
\* 20% of b_k in either direction, b_k = min(maxDelay, initialDelay *
\* multiplier^k), for every retry configuration; with the defaults the
\* bases are 1000, 2000 and 4000 ms, they never decrease with k, and every
\* delay lies in [0.8 * b_k, 1.2 * b_k].
C15_BackoffDelays ==
    /\ \A i \in SleepIndices :
         WithinJitter(rTrace[i].ms, BaseDelay(retryConfig, RetryOfSleep(i)))
    /\ DefaultBases

\* C15, amended: the sleep before retry k is b_k plus a jitter of at most
\* 20% of b_k in either direction, rounded down to whole milliseconds, so
\* that it lies in (0.8 * b_k - 1, 1.2 * b_k]; with the defaults the bases
\* are 1000, 2000 and 4000 ms, they never decrease with k, and every delay
\* lies in [0.8 * b_k, 1.2 * b_k].
C15_BackoffDelaysFloored ==
    /\ \A i \in SleepIndices :
         LET b == BaseDelay(retryConfig, RetryOfSleep(i))
         IN  /\ WithinJitterFloored(rTrace[i].ms, b)
             /\ HasDefaultDelays => WithinJitter(rTrace[i].ms, b)
    /\ DefaultBases

\* five sleeps of a client with initialDelay 1001: the first is 800 ms,
\* under 0.8 * 1001, and the fifth is taken from the capped base
C15_Witness ==
    /\ retryConfig.initialDelay = 1001
    /\ Cardinality(SleepIndices) = 5
    /\ rTrace[2].ms = 800
    /\ rTrace[10].ms = 10000

(***************************************************************************)
(* Claims about the two validators (checked under SpecValidate)            *)
(***************************************************************************)

\* the elements of a sequence
Range(seq) == { seq[i] : i \in 1..Len(seq) }

\* the path of a required member of meta
MetaPath(f) ==
    CASE f = "qualification.title" -> "meta.qualification.title"
      [] f = "duration.weeks" -> "meta.duration.weeks"
      [] f = "duration.total_hours" -> "meta.duration.total_hours"
      [] f = "delivery_mode" -> "meta.delivery_mode"
      [] f = "cohort_profile" -> "meta.cohort_profile"

\* the path of the key member of the i-th element of weekly_plan / units
WeekNumberPath(i) ==
    CASE i = 1 -> "weekly_plan[0].week_number"
      [] i = 2 -> "weekly_plan[1].week_number"
      [] OTHER -> "weekly_plan[2].week_number"

UnitCodePath(i) ==
    CASE i = 1 -> "units[0].unit_code"
      [] i = 2 -> "units[1].unit_code"
      [] OTHER -> "units[2].unit_code"

\* the required sections and required meta members that a candidate lacks
LackedSectionPaths(plan) ==
    { f \in Range(SchemaRequired) : f \notin plan.fields }
    \cup (IF "meta" \in plan.fields /\ "meta" \notin plan.falsy
          THEN { MetaPath(f) : f \in MetaFields \ plan.meta } \ plan.falsy
          ELSE {})

\* the required per-entry members that a candidate lacks
LackedEntryPaths(plan) ==
    { WeekNumberPath(i) : i \in { j \in 1..Len(plan.week_entries) :
                                    plan.week_entries[j].week_number = NotNumber } }
    \cup { UnitCodePath(i) : i \in { j \in 1..Len(plan.unit_entries) :
                                      plan.unit_entries[j].unit_code = Absent } }

\* the check reports an issue at exactly this path
ReportsPath(out, path) == \E i \in 1..Len(out.errors) : out.errors[i].path = path

\* C16: for every candidate object that lacks a field the plan schema
\* requires (a required top-level section, a required meta.* field, or a
\* required per-entry field such as weekly_plan[i].week_number or
\* units[i].unit_code), the schema check of the Verify phase reports an
\* issue whose path is exactly that field, and does not report the
\* candidate as valid.
C16_MissingFieldReported ==
    (probe.applied /\ probe.fn = "validateAgainstSchema" /\ probe.arg.kind = "object") =>
        \A path \in LackedSectionPaths(probe.arg) \cup LackedEntryPaths(probe.arg) :
            /\ ~probe.out.valid
            /\ ReportsPath(probe.out, path)

\* the constraints that GeneratedPlanSchema declares, on the modelled members
SatisfiesDeclared(plan) ==
    /\ plan.kind = "object"
    /\ Range(SchemaRequired) \subseteq plan.fields
    /\ {"schema_version", "generated_at"} \subseteq plan.metadata
    /\ MetaObjects \subseteq plan.objects
    /\ MetaFields \subseteq plan.meta
    /\ plan.falsy = {}
    /\ plan.illFormed = {}
    /\ plan.weekly_plan >= 1
    /\ \A i \in 1..Len(plan.week_entries) :
        plan.week_entries[i].week_number # NotNumber /\ plan.week_entries[i].week_number >= 1
    /\ plan.units >= 1
    /\ \A i \in 1..Len(plan.unit_entries) :
        plan.unit_entries[i].unit_code \in {"BSBWHS411", "TAEDES401"}
    /\ plan.confidence_score >= 0 /\ plan.confidence_score <= 10

\* C17: validatePlan returns {success: true, data} with no error list
\* exactly when the candidate violates none of the declared constraints,
\* and otherwise {success: false} with a non-empty error list and no data;
\* it never returns both data and errors.
C17_ValidatePlanAllOrNothing ==
    (probe.applied /\ probe.fn = "validatePlan") =>
        /\ probe.out.success <=> SatisfiesDeclared(probe.arg)
        /\ probe.out.success =>
            /\ probe.out.hasData
            /\ ~probe.out.hasErrors
            /\ probe.out.data.kind = "object"
        /\ ~probe.out.success =>
            /\ ~probe.out.hasData
            /\ probe.out.hasErrors
            /\ Len(probe.out.errors) > 0
        /\ ~(probe.out.hasData /\ probe.out.hasErrors)

\* a plan with two violations (an absent week_number, an ill-formed
\* unit_code): rejected with both errors and no data
C17_Witness ==
    /\ probe.applied
    /\ probe.fn = "validatePlan"
    /\ probe.arg = WithEntries(GoodPlan, <<WeekEntry(NotNumber)>>, <<UnitEntry("bsb-123")>>)
    /\ ~probe.out.success
    /\ Len(probe.out.errors) = 2
    /\ probe.out.errors[1] = <<"weekly_plan", ".", "0", ".", "week_number", ": ", "Required">>

\* no two elements of the sequence are equal
PairwiseDistinct(seq) ==
    \A i, j \in 1..Len(seq) : i # j => seq[i] # seq[j]

\* C19: every plan that validatePlan accepts has week_number values that
\* are positive integers and pairwise distinct, and unit_code values that
\* are pairwise distinct.
C19_AcceptedPlanKeysDistinct ==
    (probe.applied /\ probe.fn = "validatePlan" /\ probe.out.success) =>
        /\ \A i \in 1..Len(probe.out.data.week_entries) :
            probe.out.data.week_entries[i].week_number >= 1
        /\ PairwiseDistinct(probe.out.data.week_entries)
        /\ PairwiseDistinct(probe.out.data.unit_entries)

(***************************************************************************)
(* Claims about the repair prompt (checked under SpecAPRV)                 *)
(***************************************************************************)

\* the text u occurs in the text t
Occurs(t, u) ==
    \E k \in 0..(Len(t) - Len(u)) : SubSeq(t, k + 1, k + Len(u)) = u

\* the Verify phases that failed and were followed by another Generate phase
FailedVerifiesWithRepair ==
    { i \in Indices("verify") :
        ~calls[i].ok /\ i < Len(calls) /\ calls[i + 1].ev = "generate" }

\* C18: when Verify fails and attempts remain, the prior-error text of the
\* next Generate prompt names every violation of that validation pass: the
\* path and the message of every issue of the pass occur in it, however
\* many issues there are.
C18_RepairPromptNamesEveryIssue ==
    \A i \in FailedVerifiesWithRepair :
        \A k \in 1..Len(calls[i].issues) :
            Occurs(calls[i + 1].text,
                   <<calls[i].issues[k].path, ": ">> \o calls[i].issues[k].message)

\* C28: the two schema rule sets agree on acceptance: every plan that
\* Verify accepts (validateAgainstSchema reports valid), and that the
\* orchestrator therefore returns as Success, is also accepted by the
\* route's final validatePlan check, so that no successful orchestration is
\* answered with 'Generated plan failed validation'.
C28_VerifyAcceptanceImpliesZodAcceptance ==
    (probe.applied /\ probe.fn = "validateAgainstSchema" /\ probe.out.valid) =>
        validatePlan(probe.arg).success

(***************************************************************************)
(* Claims about extractJSON (checked under SpecExtract)                    *)
(***************************************************************************)

\* the texts of a JSON object
ObjectTexts == { <<"{", "}">>, <<"{", "m", "}">> }

\* the whole text is a JSON document
IsJSONDocument(t) == t \in ObjectTexts \cup { <<"5">>, <<"null">> }

\* the tokens a..b are all prose
AllProse(t, a, b) == \A i \in a..b : t[i] = "w"

\* a JSON object in a fenced code block, prose (if anything) around it
FencedObjectInProse(t) ==
    \E a, b \in 1..Len(t) :
        /\ a < b
        /\ t[a] \in {"<fence>", "<fence>json"}
        /\ t[b] = "<fence>"
        /\ SubSeq(t, a + 1, b - 1) \in ObjectTexts
        /\ AllProse(t, 1, a - 1)
        /\ AllProse(t, b + 1, Len(t))

\* the value of the object that the text holds
ObjectIn(text) ==
    IF \E i \in 1..Len(text.tokens) : text.tokens[i] = "m" THEN text.obj ELSE EmptyObject

\* no opening brace is followed by a closing brace (the members of an
\* object hold balanced braces)
NoBalancedBraces(t) ==
    /\ ~ \E i, j \in 1..Len(t) : i < j /\ t[i] = "{" /\ t[j] = "}"
    /\ ~Includes(t, "m")

\* no span of the text is a JSON document (the members of an object hold
\* the text of the nested objects)
NothingParses(t) ==
    /\ \A i, j \in 1..Len(t) : i <= j => ~IsJSONDocument(SubSeq(t, i, j))
    /\ ~Includes(t, "m")

\* C20 as stated: extractJSON never throws; it returns the parsed object
\* when the text is pure JSON or a JSON object inside a fenced code block
\* with surrounding prose, and null when the text contains no balanced braces
\* or nothing in it parses.
C20_ExtractNeverThrows ==
    (probe.applied /\ probe.fn = "extractJSON") =>
        /\ ~probe.out.threw
        /\ (probe.arg.tokens \in ObjectTexts \/ FencedObjectInProse(probe.arg.tokens)) =>
            probe.out.value = ObjectIn(probe.arg)
        /\ (NoBalancedBraces(probe.arg.tokens) \/ NothingParses(probe.arg.tokens)) =>
            probe.out.value = NoPlan

\* C20, amended: extractJSON never throws; it returns the parsed object when
\* the text is pure JSON or a JSON object inside a fenced code block with
\* surrounding prose; it returns null when nothing in the text parses, and
\* when the text has no balanced braces and is not itself a JSON document
\* (a text such as 5 has no braces and is returned parsed).
C20_ExtractNeverThrowsAmended ==
    (probe.applied /\ probe.fn = "extractJSON") =>
        /\ ~probe.out.threw
        /\ (probe.arg.tokens \in ObjectTexts \/ FencedObjectInProse(probe.arg.tokens)) =>
            probe.out.value = ObjectIn(probe.arg)
        /\ (NothingParses(probe.arg.tokens)
              \/ (NoBalancedBraces(probe.arg.tokens) /\ ~IsJSONDocument(probe.arg.tokens))) =>
            probe.out.value = NoPlan
        /\ probe.arg.tokens = <<"5">> => probe.out.value = NumberPlan

\* the object {} in a fenced block between two words of prose, extracted
C20_Witness ==
    /\ probe.applied
    /\ probe.fn = "extractJSON"
    /\ probe.arg.tokens = <<"w", "<fence>", "{", "}", "<fence>", "w">>
    /\ probe.out.value = EmptyObject
    /\ ~probe.out.threw

\* the spans <<i, j>> of the text that are a JSON object
ObjectSpans(t) ==
    { s \in (1..Len(t)) \X (1..Len(t)) :
        s[1] < s[2] /\ SubSeq(t, s[1], s[2]) \in ObjectTexts }

\* the first balanced {...} span that parses: the leftmost one
FirstObjectSpan(t) ==
    CHOOSE s \in ObjectSpans(t) : \A u \in ObjectSpans(t) : s[1] <= u[1]

\* the value that the span's text denotes
ValueOfSpan(text, s) ==
    JSONparse(text, SubSeq(text.tokens, s[1], s[2])).value

\* no members stand before the span: no nested object precedes it
LeadsTheObjects(t, s) == \A i \in 1..(s[1] - 1) : t[i] # "m"

\* C21: for raw text in which a well-formed JSON object is embedded in
\* surrounding prose, extractJSON returns the first balanced {...} span that
\* parses, also when the prose before or after that object contains brace
\* characters or a second JSON object.
C21_FirstBalancedSpanReturned ==
    (/\ probe.applied
     /\ probe.fn = "extractJSON"
     /\ ObjectSpans(probe.arg.tokens) # {}
     /\ LeadsTheObjects(probe.arg.tokens, FirstObjectSpan(probe.arg.tokens))) =>
        /\ ~probe.out.threw
        /\ probe.out.value =
              ValueOfSpan(probe.arg, FirstObjectSpan(probe.arg.tokens))

(***************************************************************************)
(* Claims about the termination of generateWithAPRV (SpecAPRVLive)         *)
(***************************************************************************)

\* reflection calls issued: each candidate plan is handed to reflectPhase
NumReflect == Cardinality(Indices("candidate"))

\* Generate phases started: analyzePlanPhase was entered, whether it reached
\* the generation call or buildUserPrompt threw before it
NumGeneratePhases ==
    Cardinality(Indices("generate") \cup Indices("promptThrew"))

\* the remote calls run one after the other: the event after a generation
\* call is its own end (a failure or a candidate plan), the event after a
\* candidate plan is the end of its reflection call
StrictSequence ==
    \A i \in 1..(Len(calls) - 1) :
        /\ calls[i].ev = "generate" =>
             /\ calls[i + 1].ev \in {"generateFailed", "candidate"}
             /\ calls[i + 1].att = calls[i].att
        /\ calls[i].ev = "candidate" =>
             /\ calls[i + 1].ev \in {"reflect", "reflectThrew"}
             /\ calls[i + 1].att = calls[i].att

\* C26: every run of generateWithAPRV ends with a result object (Success or
\* Fail), after at most 3 Generate calls and at most 3 Reflect calls made
\* one after the other, provided each remote call eventually returns or
\* throws; the reported attempts value is the number of Generate phases
\* started and lies in 0..3.
C26_TerminatesWithinBudget ==
    /\ <>(pc = "done" /\ result.returned)
    /\ [](/\ NumGenerate <= 3
          /\ NumReflect <= 3
          /\ StrictSequence
          /\ pc = "done" <=> result.returned
          /\ result.returned =>
               /\ result.success \in BOOLEAN
               /\ result.attempts = NumGeneratePhases
               /\ result.attempts \in 0..3)

\* a run that returned Success after three Generate and three Reflect calls
C26_Witness ==
    /\ pc = "done"
    /\ result.returned
    /\ result.success
    /\ result.attempts = 3
    /\ NumGenerate = 3
    /\ NumReflect = 3
    /\ Cardinality(Indices("reflect") \cup Indices("reflectThrew")) = 3

(***************************************************************************)
(* Claims about reflectPhase (checked under SpecAPRV)                      *)
(***************************************************************************)

\* the all-clear answer that buildReflectionPrompt prescribes
AllClearText == <<"No ", "issue", "s found.">>

\* C27: when the reflection answer is exactly the prescribed all-clear text
\* "No issues found.", reflectPhase reports hasIssues = false, the draft goes
\* on to Verify in the same attempt, and no repair attempt is spent on it.
C27_AllClearMeansNoIssues ==
    \A i \in Indices("reflect") :
        calls[i].text = AllClearText =>
            /\ calls[i].ok
            /\ ~reflectResult(calls[i].text).hasIssues
            /\ i < Len(calls) =>
                 /\ calls[i + 1].ev = "verify"
                 /\ calls[i + 1].att = calls[i].att
                 /\ calls[i + 1].plan = calls[i].plan

(***************************************************************************)
(* Claims about buildUserPrompt (checked under SpecPrompt)                 *)
(***************************************************************************)

\* C22: the prompt builder has no error conditions: for every intake record,
\* also one without its optional members and one that lacks members
\* altogether (no qualification object, no delivery_mode), with or without a
\* prior error, buildUserPrompt returns a non-empty prompt and never throws.
C22_PromptBuilderTotal ==
    (probe.applied /\ probe.fn = "buildUserPrompt") =>
        /\ ~probe.out.threw
        /\ Len(probe.out.value) > 0

\* a member is provided: it is in the record and, for a string, not empty
Provided(v) == v \notin {Absent, ""}

\* the values of the members that are present in the record (delivery_mode
\* is printed as a heading and is left to its label)
PresentValues(intake) ==
    ({ intake.qualification.title, intake.qualification.code, intake.qualification.level,
       intake.duration.weeks, intake.duration.total_hours, intake.cohort_profile,
       intake.start_date, intake.venue, intake.unit_list,
       intake.class_size.min, intake.class_size.max, intake.class_size.target,
       intake.trainer_details.primary_trainer } \ {Absent, ""})
    \cup Range(intake.resources.facilities) \cup Range(intake.resources.equipment)
    \cup Range(intake.resources.materials) \cup Range(intake.resources.technology)
    \cup Range(intake.trainer_details.additional_trainers)
    \cup Range(intake.assessment_preferences)

\* the labels that buildUserPrompt writes, each with the presence of its
\* member
FieldLabels(intake) ==
    { <<Provided(intake.qualification.title), "Title: ">>,
      <<Provided(intake.qualification.code), "Code: ">>,
      <<Provided(intake.qualification.level), "Level: ">>,
      <<Provided(intake.duration.weeks), "Weeks: ">>,
      <<Provided(intake.duration.total_hours), "Total Hours: ">>,
      <<Provided(intake.delivery_mode), "DELIVERY MODE">>,
      <<Provided(intake.cohort_profile), "COHORT PROFILE">>,
      <<Provided(intake.start_date), "START DATE: ">>,
      <<Provided(intake.venue), "VENUE: ">>,
      <<Provided(intake.class_size.min), "Min ">>,
      <<Provided(intake.class_size.max), "Max ">>,
      <<Provided(intake.class_size.target), "Target ">>,
      <<Provided(intake.trainer_details.primary_trainer), "PRIMARY TRAINER: ">>,
      <<Len(intake.resources.facilities) > 0, "Facilities: ">>,
      <<Len(intake.resources.equipment) > 0, "Equipment: ">>,
      <<Len(intake.resources.technology) > 0, "Technology: ">>,
      <<Len(intake.assessment_preferences) > 0, "ASSESSMENT PREFERENCES: ">>,
      <<Provided(intake.unit_list), "UNIT LIST (if provided):">> }

\* the labels of the optional members
OptionalLabels ==
    { "Code: ", "Level: ", "START DATE: ", "VENUE: ", "Min ", "Max ", "Target ",
      "PRIMARY TRAINER: ", "Facilities: ", "Equipment: ", "Technology: ",
      "ASSESSMENT PREFERENCES: ", "UNIT LIST (if provided):" }

\* C23: for every intake record, the prompt contains a labelled entry for
\* each member that is present (resources.materials,
\* trainer_details.additional_trainers and each class_size bound included)
\* and neither a label nor a placeholder value for an optional member that
\* is absent.
C23_PromptSerializesPresentFields ==
    (probe.applied /\ probe.fn = "buildUserPrompt" /\ ~probe.out.threw) =>
        /\ \A v \in PresentValues(probe.arg.intake) : Includes(probe.out.value, v)
        /\ \A l \in FieldLabels(probe.arg.intake) :
             /\ l[1] => Includes(probe.out.value, l[2])
             /\ (~l[1] /\ l[2] \in OptionalLabels) => ~Includes(probe.out.value, l[2])
        /\ ~Includes(probe.out.value, "TBD")

(***************************************************************************)
(* Claims about the plan history (checked under SpecStore)                 *)
(***************************************************************************)

\* the ids of a list of stored plans
IdsOf(plans) == { plans[i].id : i \in 1..Len(plans) }

\* newest first: ids are issued in the order of creation
NewestFirst(plans) == \A i \in 1..(Len(plans) - 1) : plans[i].id > plans[i + 1].id

\* the history item as it is stored, whether it can be read or not
StoredHistory(ls) == IF ls.plans = <<>> THEN <<>> ELSE ls.plans[1]

\* C24: after any sequence of savePlan, deletePlan and clearAllPlans calls
\* under the default settings, the stored history holds at most 10 plans,
\* newest first, and they are the most recently saved plans that were not
\* deleted: a successful savePlan puts its plan in front of the history and
\* drops what falls beyond the tenth place, a successful deletePlan takes
\* out the plan of its id and nothing else, a successful clearAllPlans
\* leaves nothing, a call that fails leaves the history as it was; after a
\* successful savePlan the current plan is the plan just saved and is the
\* first history entry.
C24_HistoryMostRecentTen ==
    LET h == StoredHistory(store)
        b == StoredHistory(lastOp.before)
    IN  /\ store.settings = <<>>
        /\ Len(h) <= 10
        /\ NewestFirst(h)
        /\ IdsOf(h) \subseteq 1..(nextId - 1)
        /\ lastOp.op = "savePlan" =>
             IF lastOp.ret # 0
             THEN /\ lastOp.ret = lastOp.arg
                  /\ store.current = <<StoredPlan(lastOp.arg)>>
                  /\ h[1] = StoredPlan(lastOp.arg)
                  /\ h = SliceFirst(<<StoredPlan(lastOp.arg)>> \o b, 10)
             ELSE h = b
        /\ lastOp.op = "deletePlan" =>
             IF lastOp.ret THEN IdsOf(h) = IdsOf(b) \ {lastOp.arg} ELSE h = b
        /\ lastOp.op = "clearAllPlans" =>
             IF lastOp.ret THEN h = <<>> /\ store.current = <<>> ELSE h = b

\* C29: savePlan is all-or-nothing: when it returns null (storage
\* unavailable, or a write fails, such as a history write beyond the quota)
\* the stored current plan and the stored history are as they were before
\* the call; when it returns an id, the current plan and, with keepHistory,
\* the history contain the plan with that id.
C29_SavePlanAllOrNothing ==
    lastOp.op = "savePlan" =>
        IF lastOp.ret = 0
        THEN /\ store.current = lastOp.before.current
             /\ store.plans = lastOp.before.plans
        ELSE /\ store.current = <<StoredPlan(lastOp.ret)>>
             /\ (store.settings = <<>> \/ store.settings[1].keepHistory) =>
                  lastOp.ret \in IdsOf(StoredHistory(store))

(***************************************************************************)
(* Claims about backup and restore (checked under SpecBackup)              *)
(***************************************************************************)

\* C30: export/import is a round trip on any store: for every backup d
\* returned by exportAllData and every store state, after importData(d)
\* succeeds exportAllData() returns the plans, currentPlan, lastIntake and
\* settings of d, also when d.currentPlan or d.lastIntake is null and the
\* store held a current plan or a last intake.
C30_ExportImportRoundTrip ==
    (lastOp.op = "importData" /\ lastOp.ret = TRUE) =>
        exportAllData(store) = backup.data

(***************************************************************************)
(* Claims about HomePage (checked under SpecPage)                          *)
(***************************************************************************)

\* C25: after the user confirms Start Over (handleReset) the persisted
\* current plan is cleared from localStorage, and the page load that
\* follows is in the intake state once its mount effect has run, instead of
\* restoring the old plan into the results state.
C25_ResetClearsStoredPlan ==
    /\ [](lastOp.op = "handleReset" => store.current = <<>>)
    /\ [][(lastOp.op = "load" /\ lastOp.arg = 1 /\ lastOp'.op = "mountEffect")
             => page'.state = "intake"]_vars

(***************************************************************************)
(* Claims about POST /api/generate (checked under SpecRoute)               *)
(***************************************************************************)

\* C12: the POST operation returns the orchestrator's attempt log with its
\* response: on success (metadata.logs) and on generation failure (logs) the
\* log of the response equals the phase log that generateWithAPRV produced
\* for the request, and is not empty when a phase ran.
C12_ResponseCarriesLog ==
    (/\ response.sent
     /\ result.returned
     /\ (response.success \/ response.error = <<"Generation failed">>)) =>
        /\ response.logs = result.phase_logs
        /\ Len(context.logs) > 0 => Len(response.logs) > 0

\* loadSystemPrompt failed in this request
SystemPromptLoadFailed ==
    \E i \in Indices("fatal") : calls[i].err.src = "load"

\* the request meets a configuration error: the API key is missing,
\* malformed or a placeholder, the schema file cannot be loaded, or the
\* system prompt file cannot be loaded
ConfigurationError ==
    \/ ~WellFormedKey(env.ANTHROPIC_API_KEY)
    \/ ~env.schemaFile
    \/ SystemPromptLoadFailed

\* the calls made to the generation API in this request
ApiCalls == Indices("generate") \cup Indices("reflect") \cup Indices("reflectThrew")

\* C13: configuration errors abort before any network call: in a request
\* where the API key is missing, malformed or a placeholder, or the schema
\* file or the system prompt file cannot be loaded, no call is made to the
\* generation API, the outcome is a failure, and no orchestrator attempt is
\* counted (attempts = 0).
C13_ConfigErrorsAbortEarly ==
    ConfigurationError =>
        /\ ApiCalls = {}
        /\ context.attempts = 0
        /\ result.attempts = 0
        /\ result.returned => ~result.success
        /\ response.sent =>
            /\ ~response.success
            /\ ~response.hasPlan
            /\ response.status \in {400, 500}

\* a complete request at a deployment whose key is 'invalid-key-format',
\* answered 500 without the orchestrator having been called
C13_Witness ==
    /\ response.sent
    /\ env.ANTHROPIC_API_KEY = <<"invalid-key-format">>
    /\ env.schemaFile
    /\ request = GoodRequest
    /\ response.status = 500
    /\ response.error = <<"Server configuration error">>
    /\ pc = "idle"

====
